---------------------------- MODULE Spec2Model ----------------------------
(***************************************************************************)
(* Rule-based candidate evaluation (src/src/evaluator.py,                  *)
(* src/src/bias_guard.py, src/config/evaluation_criteria.py).              *)
(*                                                                         *)
(* Texts are real strings and a keyword test is Python's substring test.   *)
(* Scores are IEEE-754 binary64 values computed with round-to-nearest-even *)
(* as CPython computes them: a value is a record [neg, m, e] standing for  *)
(* (-1)^neg * m * 2^e, where m is a natural number of exactly 53 bits held *)
(* as little-endian limbs of 15 bits (the zero is m = <<>>, e = 0).        *)
(***************************************************************************)
EXTENDS Integers, Sequences, FiniteSets, TLC

(***************************************************************************)
(* Natural numbers of any size: little-endian limbs, no leading zero limb. *)
(***************************************************************************)
LimbBits == 15
LimbBase == 2 ^ LimbBits
MantBits == 53

RECURSIVE BigNorm(_)
BigNorm(a) ==
    IF a = <<>> THEN <<>>
    ELSE IF a[Len(a)] = 0 THEN BigNorm(SubSeq(a, 1, Len(a) - 1))
    ELSE a

BigOfInt(n) ==
    IF n = 0 THEN <<>>
    ELSE IF n < LimbBase THEN <<n>>
    ELSE <<n % LimbBase, n \div LimbBase>>

IntOfBig(a) ==
    IF a = <<>> THEN 0
    ELSE IF Len(a) = 1 THEN a[1]
    ELSE a[1] + LimbBase * a[2]

BigLimb(a, i) == IF i <= Len(a) THEN a[i] ELSE 0

RECURSIVE BigAddFrom(_, _, _, _)
BigAddFrom(a, b, i, carry) ==
    IF i > Len(a) /\ i > Len(b)
    THEN IF carry = 0 THEN <<>> ELSE <<carry>>
    ELSE LET s == BigLimb(a, i) + BigLimb(b, i) + carry
         IN  <<s % LimbBase>> \o BigAddFrom(a, b, i + 1, s \div LimbBase)

BigAdd(a, b) == BigAddFrom(a, b, 1, 0)

\* a - b for a >= b
RECURSIVE BigSubFrom(_, _, _, _)
BigSubFrom(a, b, i, borrow) ==
    IF i > Len(a) THEN <<>>
    ELSE LET d == BigLimb(a, i) - BigLimb(b, i) - borrow
         IN  IF d < 0
             THEN <<d + LimbBase>> \o BigSubFrom(a, b, i + 1, 1)
             ELSE <<d>> \o BigSubFrom(a, b, i + 1, 0)

BigSub(a, b) == BigNorm(BigSubFrom(a, b, 1, 0))

\* -1, 0, 1 as a < b, a = b, a > b
RECURSIVE BigCmpFrom(_, _, _)
BigCmpFrom(a, b, i) ==
    IF i = 0 THEN 0
    ELSE IF a[i] < b[i] THEN -1
    ELSE IF a[i] > b[i] THEN 1
    ELSE BigCmpFrom(a, b, i - 1)

BigCmp(a, b) ==
    IF Len(a) < Len(b) THEN -1
    ELSE IF Len(a) > Len(b) THEN 1
    ELSE BigCmpFrom(a, b, Len(a))

\* a * k for 0 <= k < LimbBase
RECURSIVE BigMulSmallFrom(_, _, _, _)
BigMulSmallFrom(a, k, i, carry) ==
    IF i > Len(a)
    THEN IF carry = 0 THEN <<>> ELSE <<carry>>
    ELSE LET p == a[i] * k + carry
         IN  <<p % LimbBase>> \o BigMulSmallFrom(a, k, i + 1, p \div LimbBase)

BigMulSmall(a, k) == BigNorm(BigMulSmallFrom(a, k, 1, 0))

BigZeros(q) == [i \in 1..q |-> 0]

RECURSIVE BigMulFrom(_, _, _)
BigMulFrom(a, b, j) ==
    IF j > Len(b) THEN <<>>
    ELSE BigAdd(IF b[j] = 0 \/ a = <<>> THEN <<>>
                ELSE BigZeros(j - 1) \o BigMulSmall(a, b[j]),
                BigMulFrom(a, b, j + 1))

BigMul(a, b) == BigNorm(BigMulFrom(a, b, 1))

\* floor(a / d) for 0 < d < LimbBase, from the top limb down
RECURSIVE BigDivSmallFrom(_, _, _, _)
BigDivSmallFrom(a, d, i, rem) ==
    IF i = 0 THEN <<>>
    ELSE LET cur == rem * LimbBase + a[i]
         IN  BigDivSmallFrom(a, d, i - 1, cur % d) \o <<cur \div d>>

BigDivSmall(a, d) == BigNorm(BigDivSmallFrom(a, d, Len(a), 0))

RECURSIVE BigModSmallFrom(_, _, _, _)
BigModSmallFrom(a, d, i, rem) ==
    IF i = 0 THEN rem
    ELSE BigModSmallFrom(a, d, i - 1, (rem * LimbBase + a[i]) % d)

BigModSmall(a, d) == BigModSmallFrom(a, d, Len(a), 0)

RECURSIVE IntBitLen(_)
IntBitLen(n) == IF n = 0 THEN 0 ELSE 1 + IntBitLen(n \div 2)

BigBitLen(a) ==
    IF a = <<>> THEN 0 ELSE LimbBits * (Len(a) - 1) + IntBitLen(a[Len(a)])

\* a * 2^k
BigShl(a, k) ==
    IF a = <<>> THEN <<>>
    ELSE BigZeros(k \div LimbBits) \o BigMulSmall(a, 2 ^ (k % LimbBits))

\* floor(a / 2^k)
BigShr(a, k) ==
    LET q == k \div LimbBits
    IN  IF q >= Len(a) THEN <<>>
        ELSE BigDivSmall(SubSeq(a, q + 1, Len(a)), 2 ^ (k % LimbBits))

BigIsOdd(a) == a # <<>> /\ a[1] % 2 = 1

\* a / 2^k rounded to the nearest integer, ties to the even one
BigShrRound(a, k) ==
    IF k = 0 THEN a
    ELSE LET Up(q, c) ==
                 IF c > 0 \/ (c = 0 /\ BigIsOdd(q)) THEN BigAdd(q, <<1>>) ELSE q
             Rem(q) == Up(q, BigCmp(BigSub(a, BigShl(q, k)), BigShl(<<1>>, k - 1)))
         IN  Rem(BigShr(a, k))

(***************************************************************************)
(* binary64 values                                                         *)
(***************************************************************************)
FZero == [neg |-> FALSE, m |-> <<>>, e |-> 0]

\* The binary64 value nearest to (-1)^neg * m * 2^e (ties to even).
FRound(neg, m, e) ==
    LET Carry(q, drop) ==
            IF BigBitLen(q) > MantBits
            THEN [neg |-> neg, m |-> BigShr(q, 1), e |-> e + drop + 1]
            ELSE [neg |-> neg, m |-> q, e |-> e + drop]
        Sized(len) ==
            IF len = 0 THEN FZero
            ELSE IF len <= MantBits
            THEN [neg |-> neg, m |-> BigShl(m, MantBits - len), e |-> e - (MantBits - len)]
            ELSE Carry(BigShrRound(m, len - MantBits), len - MantBits)
    IN  Sized(BigBitLen(m))

\* float(n) for an int n
FInt(n) == FRound(n < 0, BigOfInt(IF n < 0 THEN -n ELSE n), 0)

\* The float literal n/d written in decimal (d a power of ten), n >= 0:
\* the quotient to 75 fractional bits with a sticky last bit, then rounded.
FDec(n, d) ==
    LET Quot(num) ==
            FRound(FALSE,
                   BigAdd(BigShl(BigDivSmall(num, d), 1),
                          BigOfInt(IF BigModSmall(num, d) = 0 THEN 0 ELSE 1)),
                   -(5 * LimbBits) - 1)
    IN  Quot(BigShl(BigOfInt(n), 5 * LimbBits))

FMul(a, b) ==
    IF a.m = <<>> \/ b.m = <<>> THEN FZero
    ELSE FRound(a.neg # b.neg, BigMul(a.m, b.m), a.e + b.e)

FAdd(a, b) ==
    LET Aligned(am, bm, c, emin) ==
            FRound(IF a.neg = b.neg \/ c > 0 THEN a.neg ELSE b.neg,
                   IF a.neg = b.neg THEN BigAdd(am, bm)
                   ELSE IF c >= 0 THEN BigSub(am, bm)
                   ELSE BigSub(bm, am),
                   emin)
        Cmp(am, bm, emin) == Aligned(am, bm, BigCmp(am, bm), emin)
        Align(emin) == Cmp(BigShl(a.m, a.e - emin), BigShl(b.m, b.e - emin), emin)
    IN  IF a.m = <<>> THEN b
        ELSE IF b.m = <<>> THEN a
        ELSE Align(IF a.e < b.e THEN a.e ELSE b.e)

\* a < b. Every mantissa but that of zero holds MantBits bits, so of two
\* magnitudes the one with the larger exponent is the larger.
FLt(a, b) ==
    LET Ordered(c) ==
            IF a.neg /\ ~b.neg THEN a.m # <<>> \/ b.m # <<>>
            ELSE IF ~a.neg /\ b.neg THEN FALSE
            ELSE IF a.neg THEN c > 0
            ELSE c < 0
    IN  Ordered(IF a.m = <<>> THEN (IF b.m = <<>> THEN 0 ELSE -1)
                ELSE IF b.m = <<>> THEN 1
                ELSE IF a.e < b.e THEN -1
                ELSE IF a.e > b.e THEN 1
                ELSE BigCmp(a.m, b.m))

FGe(a, b) == ~FLt(a, b)

\* Python's min(a, b): b when b < a, else a
FMin(a, b) == IF FLt(b, a) THEN b ELSE a

\* int(x) for x >= 0: truncation
FTrunc(x) == IntOfBig(IF x.e >= 0 THEN BigShl(x.m, x.e) ELSE BigShr(x.m, -x.e))

\* The number of tenths that format(x, ".1f") and round(x, 1) show for
\* x >= 0: the exact value of x times ten, rounded half to even.
FTenths(x) ==
    LET t == BigMulSmall(x.m, 10)
    IN  IntOfBig(IF x.e >= 0 THEN BigShl(t, x.e) ELSE BigShrRound(t, -x.e))

\* f"{x:.1f}" for x >= 0
Fmt1(x) ==
    LET Shown(t) == ToString(t \div 10) \o "." \o ToString(t % 10)
    IN  Shown(FTenths(x))

(***************************************************************************)
(* Strings: Python's `in`, str.lower, str.join, list slicing.              *)
(***************************************************************************)
\* k in t
StrIn(k, t) ==
    \E i \in 1..(Len(t) - Len(k) + 1) : SubSeq(t, i, i + Len(k) - 1) = k

UpperChars == <<"A", "B", "C", "D", "E", "F", "G", "H", "I", "J", "K", "L", "M",
                "N", "O", "P", "Q", "R", "S", "T", "U", "V", "W", "X", "Y", "Z">>
LowerChars == <<"a", "b", "c", "d", "e", "f", "g", "h", "i", "j", "k", "l", "m",
                "n", "o", "p", "q", "r", "s", "t", "u", "v", "w", "x", "y", "z">>
DigitChars == {"0", "1", "2", "3", "4", "5", "6", "7", "8", "9"}
SpaceChars == {" ", "\t", "\n", "\r", "\f"}

LowerChar(c) ==
    IF \E i \in 1..Len(UpperChars) : UpperChars[i] = c
    THEN LowerChars[CHOOSE i \in 1..Len(UpperChars) : UpperChars[i] = c]
    ELSE c

\* s.lower(), by halves to keep the recursion shallow
RECURSIVE Lower(_)
Lower(s) ==
    IF Len(s) = 0 THEN ""
    ELSE IF Len(s) = 1 THEN LowerChar(s)
    ELSE Lower(SubSeq(s, 1, Len(s) \div 2)) \o Lower(SubSeq(s, Len(s) \div 2 + 1, Len(s)))

\* sep.join(parts)
RECURSIVE Join(_, _)
Join(parts, sep) ==
    IF parts = <<>> THEN ""
    ELSE IF Len(parts) = 1 THEN parts[1]
    ELSE parts[1] \o sep \o Join(Tail(parts), sep)

\* xs[:n]
Take(xs, n) == SubSeq(xs, 1, IF Len(xs) < n THEN Len(xs) ELSE n)

\* [k for k in keywords if k in text], by halves to keep the recursion shallow
RECURSIVE Found(_, _)
Found(keywords, text) ==
    IF keywords = <<>> THEN <<>>
    ELSE IF Len(keywords) = 1
    THEN IF StrIn(keywords[1], text) THEN keywords ELSE <<>>
    ELSE Found(SubSeq(keywords, 1, Len(keywords) \div 2), text)
         \o Found(SubSeq(keywords, Len(keywords) \div 2 + 1, Len(keywords)), text)

\* The elements of xs, each once, in the order of their first occurrence.
RECURSIVE Dedup(_)
Dedup(xs) ==
    IF xs = <<>> THEN <<>>
    ELSE LET d == Dedup(SubSeq(xs, 1, Len(xs) - 1))
             x == xs[Len(xs)]
         IN  IF \E i \in 1..Len(d) : d[i] = x THEN d ELSE Append(d, x)

Reverse(xs) == [i \in 1..Len(xs) |-> xs[Len(xs) + 1 - i]]

Rotate(xs, k) ==
    IF xs = <<>> THEN <<>>
    ELSE [i \in 1..Len(xs) |-> xs[((i - 1 + k) % Len(xs)) + 1]]

\* A variant of ListOfSet that leaves out set(): the list as it was built.
ListKeepingDuplicates(xs, seed) == xs

\* list(set(xs)): the distinct elements of xs in the iteration order of a
\* set of strings, which is fixed by the string hash seed of the process
\* (PYTHONHASHSEED, random at every start of the interpreter).
ListOfSet(xs, seed) ==
    LET Order(d) == IF seed % 2 = 1 THEN Reverse(d) ELSE d
    IN  Order(Rotate(Dedup(xs), seed \div 2))

(***************************************************************************)
(* Regular expressions of the re module: a pattern is a tree, and         *)
(* ReEnds(r, t, i) is the set of positions where a match of r that starts *)
(* at position i of t can end (the position after its last character).    *)
(***************************************************************************)
ReLit(s)         == [t |-> "lit", s |-> s]
ReDigit          == [t |-> "digit"]
ReSpace          == [t |-> "space"]
ReWordBoundary   == [t |-> "wb"]
ReSeq(rs)        == [t |-> "seq", rs |-> rs]
ReAlt(rs)        == [t |-> "alt", rs |-> rs]
ReOpt(r)         == [t |-> "rep", r |-> r, lo |-> 0, hi |-> 1]
ReRep(r, lo, hi) == [t |-> "rep", r |-> r, lo |-> lo, hi |-> hi]
\* r* and r+ : hi = -1 stands for no upper limit
ReStar(r)        == [t |-> "rep", r |-> r, lo |-> 0, hi |-> -1]
RePlus(r)        == [t |-> "rep", r |-> r, lo |-> 1, hi |-> -1]

IsWordChar(c) ==
    \/ c \in DigitChars
    \/ c = "_"
    \/ \E i \in 1..Len(LowerChars) : LowerChars[i] = c \/ UpperChars[i] = c

IsWordAt(t, i) == i >= 1 /\ i <= Len(t) /\ IsWordChar(SubSeq(t, i, i))

RECURSIVE ReEnds(_, _, _)
RECURSIVE ReSeqEnds(_, _, _)
RECURSIVE ReRepEnds(_, _, _, _, _)

ReSeqEnds(rs, t, starts) ==
    IF rs = <<>> \/ starts = {} THEN starts
    ELSE ReSeqEnds(Tail(rs), t, UNION {ReEnds(rs[1], t, i) : i \in starts})

\* after n repetitions the match may stand at any position of `at`
ReRepEnds(r, t, at, n, range) ==
    LET here == IF n >= range[1] THEN at ELSE {}
        next == UNION {ReEnds(r, t, i) : i \in at}
    IN  IF at = {} \/ n = range[2] \/ (range[2] = -1 /\ n >= range[1] /\ next \subseteq at)
        THEN here
        ELSE here \cup ReRepEnds(r, t, next, n + 1, range)

ReEnds(r, t, i) ==
    CASE r.t = "lit"   -> IF i + Len(r.s) - 1 <= Len(t) /\ SubSeq(t, i, i + Len(r.s) - 1) = r.s
                          THEN {i + Len(r.s)} ELSE {}
      [] r.t = "digit" -> IF i <= Len(t) /\ SubSeq(t, i, i) \in DigitChars THEN {i + 1} ELSE {}
      [] r.t = "space" -> IF i <= Len(t) /\ SubSeq(t, i, i) \in SpaceChars THEN {i + 1} ELSE {}
      [] r.t = "wb"    -> IF IsWordAt(t, i - 1) # IsWordAt(t, i) THEN {i} ELSE {}
      [] r.t = "seq"   -> ReSeqEnds(r.rs, t, {i})
      [] r.t = "alt"   -> UNION {ReEnds(r.rs[k], t, i) : k \in 1..Len(r.rs)}
      [] r.t = "rep"   -> ReRepEnds(r.r, t, {i}, 0, <<r.lo, r.hi>>)

\* re.search(r, t) is not None
ReSearch(r, t) == \E i \in 1..(Len(t) + 1) : ReEnds(r, t, i) # {}

(***************************************************************************)
(* config/evaluation_criteria.py                                           *)
(***************************************************************************)
DimKeys == <<"core_competencies", "experience_results", "collaboration_signals",
             "cultural_practical_fit", "education_other">>

DIMENSION_WEIGHTS ==
    [core_competencies      |-> FDec(35, 100),
     experience_results     |-> FDec(25, 100),
     collaboration_signals  |-> FDec(20, 100),
     cultural_practical_fit |-> FDec(15, 100),
     education_other        |-> FDec(5, 100)]

\* band |-> (lowest score, highest score), both inclusive
SCORE_BANDS ==
    <<[band |-> "strong_fit", lo |-> 85, hi |-> 100],
      [band |-> "good_fit",   lo |-> 70, hi |-> 84],
      [band |-> "borderline", lo |-> 60, hi |-> 69],
      [band |-> "reject",     lo |-> 0,  hi |-> 59]>>

\* A variant of get_score_band that reads the bands off the upper bounds of
\* SCORE_BANDS: above 84, above 69, above 59.
get_score_band_above(score) ==
    IF FLt(FInt(84), score) THEN "Strong Fit"
    ELSE IF FLt(FInt(69), score) THEN "Good Fit"
    ELSE IF FLt(FInt(59), score) THEN "Borderline"
    ELSE "Reject"

get_score_band(score) ==
    IF FGe(score, FInt(85)) THEN "Strong Fit"
    ELSE IF FGe(score, FInt(70)) THEN "Good Fit"
    ELSE IF FGe(score, FInt(60)) THEN "Borderline"
    ELSE "Reject"

REJECTION_THRESHOLD == 60
CORE_COMPETENCY_ZERO_REJECT == TRUE

REQUIRED_TOOLS ==
    <<"toon boom", "toon boom harmony",
      "after effects", "adobe after effects", "ae",
      "adobe animate", "animate cc", "flash",
      "spine", "spine 2d", "esoteric spine",
      "moho", "anime studio",
      "opentoonz", "krita">>

PREFERRED_TOOLS ==
    <<"photoshop", "adobe photoshop",
      "unity", "unity3d",
      "dragonbones",
      "illustrator",
      "procreate",
      "tvpaint">>

ANIMATION_SKILLS ==
    <<"character animation",
      "rigging", "rig", "skeletal animation",
      "vfx", "visual effects", "effects animation",
      "ui animation", "interface animation",
      "frame-by-frame", "frame by frame",
      "cutout animation", "cut-out",
      "motion graphics",
      "storyboard">>

DOMAIN_EXPERIENCE ==
    <<"gamedev", "game dev", "game development",
      "mobile games", "casual games",
      "slot", "casino",
      "cartoon", "animated series",
      "youtube">>

COLLABORATION_KEYWORDS ==
    <<"feedback", "iterate", "iteration", "revision",
      "learn", "learning", "adaptable", "flexible", "willing to learn",
      "independent", "self-directed", "autonomous",
      "team", "teamwork", "collaborate", "collaboration",
      "coordinate", "communication",
      "jira", "confluence", "slack", "git", "figma">>

GenderNouns == ReAlt(<<ReLit("male"), ReLit("female"), ReLit("man"),
                       ReLit("woman"), ReLit("boy"), ReLit("girl")>>)

DEMOGRAPHIC_PATTERNS ==
    << \* \b(\d{1,2})\s*(years?\s*old|y\.?o\.?)\b
       ReSeq(<<ReWordBoundary, ReRep(ReDigit, 1, 2), ReStar(ReSpace),
               ReAlt(<<ReSeq(<<ReLit("year"), ReOpt(ReLit("s")), ReStar(ReSpace), ReLit("old")>>),
                       ReSeq(<<ReLit("y"), ReOpt(ReLit(".")), ReLit("o"), ReOpt(ReLit("."))>>)>>),
               ReWordBoundary>>),
       \* \b(male|female|man|woman|boy|girl)\b
       ReSeq(<<ReWordBoundary, GenderNouns, ReWordBoundary>>),
       \* \b(married|single|divorced|widow)\b
       ReSeq(<<ReWordBoundary,
               ReAlt(<<ReLit("married"), ReLit("single"), ReLit("divorced"), ReLit("widow")>>),
               ReWordBoundary>>) >>

ENGLISH_LEVEL_SCORES ==
    <<[level |-> "Advanced",     score |-> 10],
      [level |-> "Intermediate", score |-> 7],
      [level |-> "Basic",        score |-> 4],
      [level |-> "Not stated",   score |-> 5]>>

\* A variant of EnglishScoreGet that scores a level the table does not hold
\* as 0: `ENGLISH_LEVEL_SCORES.get(level, 0)`.
EnglishScoreGetOrZero(level, default) ==
    IF \E i \in 1..Len(ENGLISH_LEVEL_SCORES) : ENGLISH_LEVEL_SCORES[i].level = level
    THEN ENGLISH_LEVEL_SCORES[CHOOSE i \in 1..Len(ENGLISH_LEVEL_SCORES) :
                                  ENGLISH_LEVEL_SCORES[i].level = level].score
    ELSE 0

\* ENGLISH_LEVEL_SCORES.get(level, default)
EnglishScoreGet(level, default) ==
    IF \E i \in 1..Len(ENGLISH_LEVEL_SCORES) : ENGLISH_LEVEL_SCORES[i].level = level
    THEN ENGLISH_LEVEL_SCORES[CHOOSE i \in 1..Len(ENGLISH_LEVEL_SCORES) :
                                  ENGLISH_LEVEL_SCORES[i].level = level].score
    ELSE default

(***************************************************************************)
(* years_experience as the loader passes it through: an int, a float (in   *)
(* thousandths, or not-a-number), a string or None.                        *)
(***************************************************************************)
Infinity == 2 ^ 30
PyInt(n)     == [kind |-> "int",   n |-> n, nan |-> FALSE, s |-> ""]
PyFloat(m)   == [kind |-> "float", n |-> m, nan |-> FALSE, s |-> ""]
PyNaN        == [kind |-> "float", n |-> 0, nan |-> TRUE,  s |-> ""]
PyStr(s)     == [kind |-> "str",   n |-> 0, nan |-> FALSE, s |-> s]
PyNone       == [kind |-> "none",  n |-> 0, nan |-> FALSE, s |-> ""]

DigitValue(c) == CHOOSE d \in 0..9 : ToString(d) = c

RECURSIVE AllDigits(_)
AllDigits(s) == s = "" \/ (SubSeq(s, 1, 1) \in DigitChars /\ AllDigits(SubSeq(s, 2, Len(s))))

RECURSIVE DigitsValue(_)
DigitsValue(s) ==
    IF s = "" THEN 0
    ELSE 10 * DigitsValue(SubSeq(s, 1, Len(s) - 1)) + DigitValue(SubSeq(s, Len(s), Len(s)))

RECURSIVE Strip(_)
Strip(s) ==
    IF s # "" /\ SubSeq(s, 1, 1) \in SpaceChars THEN Strip(SubSeq(s, 2, Len(s)))
    ELSE IF s # "" /\ SubSeq(s, Len(s), Len(s)) \in SpaceChars THEN Strip(SubSeq(s, 1, Len(s) - 1))
    ELSE s

\* float(s) for a string s: a decimal numeral of at most six integer and
\* three fractional digits, "nan", "inf" or "infinity" in any case, with an
\* optional sign and surrounding white space; anything else is a ValueError.
FloatOfStr(str) ==
    LET Parts(sign, u, ip, fp) ==
            IF u = "nan" THEN [err |-> FALSE, nan |-> TRUE, milli |-> 0]
            ELSE IF u \in {"inf", "infinity"}
            THEN [err |-> FALSE, nan |-> FALSE, milli |-> sign * Infinity]
            ELSE IF /\ AllDigits(ip) /\ AllDigits(fp) /\ ip \o fp # ""
                    /\ Len(ip) <= 6 /\ Len(fp) <= 3
                 THEN [err |-> FALSE, nan |-> FALSE,
                       milli |-> sign * (1000 * DigitsValue(ip)
                                         + DigitsValue(SubSeq(fp \o "000", 1, 3)))]
                 ELSE [err |-> TRUE, nan |-> FALSE, milli |-> 0]
        Split(sign, u, dot) ==
            Parts(sign, u, SubSeq(u, 1, dot - 1), SubSeq(u, dot + 1, Len(u)))
        Dots(sign, u, dots) ==
            Split(sign, u, IF dots = {} THEN Len(u) + 1
                           ELSE CHOOSE i \in dots : \A j \in dots : i <= j)
        Unsigned(sign, u) == Dots(sign, u, {i \in 1..Len(u) : SubSeq(u, i, i) = "."})
        Signed(t, signd) ==
            Unsigned(IF signd /\ SubSeq(t, 1, 1) = "-" THEN -1 ELSE 1,
                     IF signd THEN SubSeq(t, 2, Len(t)) ELSE t)
        Stripped(t) == Signed(t, t # "" /\ SubSeq(t, 1, 1) \in {"+", "-"})
    IN  Stripped(Lower(Strip(str)))

\* float(years)
ToFloat(years) ==
    CASE years.kind = "int"   -> [err |-> FALSE, nan |-> FALSE, milli |-> 1000 * years.n]
      [] years.kind = "float" -> [err |-> FALSE, nan |-> years.nan, milli |-> years.n]
      [] years.kind = "str"   -> FloatOfStr(years.s)
      [] years.kind = "none"  -> [err |-> TRUE, nan |-> FALSE, milli |-> 0]

RECURSIVE StripZeros(_)
StripZeros(s) ==
    IF Len(s) > 1 /\ SubSeq(s, Len(s), Len(s)) = "0" THEN StripZeros(SubSeq(s, 1, Len(s) - 1))
    ELSE s

Pad3(n) == IF n < 10 THEN "00" \o ToString(n) ELSE IF n < 100 THEN "0" \o ToString(n) ELSE ToString(n)

\* str(years), as f"{candidate.years_experience}" shows it
YearsStr(years) ==
    CASE years.kind = "int"   -> ToString(years.n)
      [] years.kind = "str"   -> years.s
      [] years.kind = "none"  -> "None"
      [] years.kind = "float" ->
            IF years.nan THEN "nan"
            ELSE LET a == IF years.n < 0 THEN -years.n ELSE years.n
                 IN  (IF years.n < 0 THEN "-" ELSE "")
                     \o ToString(a \div 1000) \o "." \o StripZeros(Pad3(a % 1000))

\* The int the function returns, or None when no branch returns.
PyNoneScore == [none |-> TRUE, v |-> 0]
PyScore(v)  == [none |-> FALSE, v |-> v]

score_experience_years(years) ==
    IF (years.kind = "str" /\ years.s = "Not stated") \/ years.kind = "none"
    THEN PyScore(5)
    ELSE LET Branch(f, y) ==
                 IF f.err THEN PyScore(5)
                 ELSE IF f.nan THEN PyNoneScore       \* every comparison is False
                 ELSE IF 1000 <= y /\ y <= 3000 THEN PyScore(10)
                 ELSE IF 500 <= y /\ y < 1000 THEN PyScore(8)
                 ELSE IF 3000 < y /\ y <= 5000 THEN PyScore(8)
                 ELSE IF y > 5000 THEN PyScore(6)
                 ELSE IF y < 500 THEN PyScore(5)
                 ELSE PyNoneScore
             Years(f) == Branch(f, f.milli)
         IN  Years(ToFloat(years))

(***************************************************************************)
(* src/bias_guard.py                                                       *)
(***************************************************************************)
PERSONAL_PATTERNS ==
    << \* \bi am\s+(a\s+)?(male|female|man|woman)\b
       ReSeq(<<ReWordBoundary, ReLit("i am"), RePlus(ReSpace),
               ReOpt(ReSeq(<<ReLit("a"), RePlus(ReSpace)>>)),
               ReAlt(<<ReLit("male"), ReLit("female"), ReLit("man"), ReLit("woman")>>),
               ReWordBoundary>>),
       \* \bmy (age|gender|religion|ethnicity)\b
       ReSeq(<<ReWordBoundary, ReLit("my "),
               ReAlt(<<ReLit("age"), ReLit("gender"), ReLit("religion"), ReLit("ethnicity")>>),
               ReWordBoundary>>),
       \* \b(i('m| am)\s+)?\d{2}\s*years?\s*old\b
       ReSeq(<<ReWordBoundary,
               ReOpt(ReSeq(<<ReLit("i"), ReAlt(<<ReLit("'m"), ReLit(" am")>>), RePlus(ReSpace)>>)),
               ReRep(ReDigit, 2, 2), ReStar(ReSpace), ReLit("year"), ReOpt(ReLit("s")),
               ReStar(ReSpace), ReLit("old"), ReWordBoundary>>) >>

DemographicIssue == "Potential demographic data detected: pattern match"
PersonalIssue    == "Personal demographic statement detected"

RECURSIVE IssuesOf(_, _, _)
IssuesOf(patterns, text, issue) ==
    IF patterns = <<>> THEN <<>>
    ELSE (IF ReSearch(patterns[1], text) THEN <<issue>> ELSE <<>>)
         \o IssuesOf(Tail(patterns), text, issue)

scan_text(text) ==
    \* The demographic patterns are compiled with re.IGNORECASE and run over
    \* the raw text. Their letters are all lower case, and neither a
    \* character class nor the word boundary depends on the case of a
    \* letter, so they match the raw text where they match the lowered one.
    LET Scan(text_lower) ==
            IssuesOf(DEMOGRAPHIC_PATTERNS, text_lower, DemographicIssue)
            \o IssuesOf(PERSONAL_PATTERNS, text_lower, PersonalIssue)
    IN  Scan(Lower(text))

\* (is_flagged, issues)
check_candidate(cv_text, additional_info, seed) ==
    LET Flagged(issues) == [is_flagged |-> Len(issues) > 0, issues |-> issues]
    IN  Flagged(ListOfSet(scan_text(cv_text \o " " \o additional_info), seed))

(***************************************************************************)
(* src/evaluator.py                                                        *)
(*                                                                         *)
(* A scoring method is the sequence of its `if` blocks: each block maps    *)
(* the (score, evidence) the method holds before it to the (score,         *)
(* evidence) it holds after it.                                            *)
(***************************************************************************)
_combine_text(candidate) ==
    Lower(Join(<<candidate.cv_text,
                 IF candidate.highlights # "Not stated" THEN candidate.highlights ELSE "",
                 IF candidate.additional_info # "" THEN candidate.additional_info ELSE "">>,
               " "))

\* A variant of FCapTen that leaves out the cap: `score` in place of
\* `min(10.0, score)`.
FUncapped(score) == score

\* min(10.0, score)
FCapTen(score) == FMin(FInt(10), score)

\* A variant of Scored that leaves out `if not evidence: evidence.append(default)`.
ScoredWithoutDefault(acc, default) ==
    [evidence |-> acc.evidence, score |-> FCapTen(acc.score)]

\* `return min(10.0, score), evidence`, after `if not evidence: evidence.append(default)`
Scored(acc, default) ==
    [evidence |-> IF acc.evidence = <<>> THEN <<default>> ELSE acc.evidence,
     score    |-> FCapTen(acc.score)]

\* A variant of FBonus that leaves out the cap: `len(found) * step` in place
\* of `min(cap, len(found) * step)`.
FBonusUncapped(score, cap, found, step) == FAdd(score, FMul(FInt(Len(found)), step))

\* A variant of FBonus that counts the keywords listed in the evidence, at
\* most three, in place of the keywords found.
FBonusOfListed(score, cap, found, step) ==
    FAdd(score, FMin(cap, FMul(FInt(Len(Take(found, 3))), step)))

\* score += min(cap, len(found) * step) for a non-empty list `found`
FBonus(score, cap, found, step) == FAdd(score, FMin(cap, FMul(FInt(Len(found)), step)))

_score_core_competencies(text, seed) ==
    LET Required(acc, required_found) ==
            IF required_found # <<>>
            THEN [evidence |-> Append(acc.evidence, "Required tool: "
                                   \o Join(Take(ListOfSet(required_found, seed), 3), ", ")),
                  score    |-> FAdd(acc.score, FDec(40, 10))]
            ELSE acc
        Preferred(acc, preferred_found) ==
            IF preferred_found # <<>>
            THEN [evidence |-> Append(acc.evidence, "Additional tools: "
                                   \o Join(Take(ListOfSet(preferred_found, seed), 3), ", ")),
                  score    |-> FBonus(acc.score, FDec(20, 10), preferred_found, FDec(5, 10))]
            ELSE acc
        Skills(acc, skills_found) ==
            IF skills_found # <<>>
            THEN [evidence |-> Append(acc.evidence, "Animation skills: "
                                   \o Join(Take(ListOfSet(skills_found, seed), 4), ", ")),
                  score    |-> FBonus(acc.score, FDec(40, 10), skills_found, FDec(6, 10))]
            ELSE acc
    IN  Scored(Skills(Preferred(Required([score |-> FZero, evidence |-> <<>>],
                                         Found(REQUIRED_TOOLS, text)),
                                Found(PREFERRED_TOOLS, text)),
                      Found(ANIMATION_SKILLS, text)),
               "Limited technical signals detected")

PROJECT_INDICATORS ==
    <<"project", "released", "launched", "shipped",
      "created", "developed", "built", "worked on",
      "portfolio", "freelance", "client">>

\* score = min(10.0, score + bonus) when `test` holds
Raise(acc, test, bonus, note) ==
    IF test
    THEN [evidence |-> Append(acc.evidence, note),
          score    |-> FCapTen(FAdd(acc.score, bonus))]
    ELSE acc

\* raised: the TypeError of `None + 1`, `None + 0.5` or `min(10.0, None)`
_score_experience(candidate, text) ==
    LET Years(years) ==
            [evidence |-> IF ~(candidate.years_experience.kind = "str"
                               /\ candidate.years_experience.s = "Not stated")
                          THEN <<"Experience: " \o YearsStr(candidate.years_experience)
                                 \o " years">>
                          ELSE <<>>,
             score    |-> FInt(years.v)]
        Projects(acc, project_count) ==
            Raise(acc, project_count >= 3, FInt(1), "Multiple project references found")
        Domain(acc, domain_found) ==
            Raise(acc, domain_found # <<>>, FDec(5, 10),
                  "Domain: " \o Join(Take(domain_found, 3), ", "))
        Method(years) ==
            IF years.none
            THEN [raised |-> TRUE, score |-> FZero, evidence |-> <<>>]
            ELSE [raised |-> FALSE] @@
                 Scored(Domain(Projects(Years(years), Len(Found(PROJECT_INDICATORS, text))),
                               Found(DOMAIN_EXPERIENCE, text)),
                        "Experience details not clearly stated")
    IN  Method(score_experience_years(candidate.years_experience))

TEAM_PATTERNS ==
    <<ReSeq(<<ReLit("team of "), RePlus(ReDigit)>>),
      ReLit("worked with"),
      ReLit("collaborated"),
      ReLit("mentored"),
      ReLit("supervised")>>

_score_collaboration(text) ==
    LET Keywords(acc, collab_found) ==
            IF collab_found # <<>>
            THEN [evidence |-> Append(acc.evidence, "Collaboration signals: "
                                   \o Join(Take(collab_found, 4), ", ")),
                  score    |-> FBonus(acc.score, FDec(30, 10), collab_found, FDec(4, 10))]
            ELSE acc
        Team(acc) ==
            Raise(acc, \E i \in 1..Len(TEAM_PATTERNS) : ReSearch(TEAM_PATTERNS[i], text),
                  FDec(5, 10), "Direct team experience mentioned")
    IN  Scored(Team(Keywords([score |-> FDec(50, 10), evidence |-> <<>>],
                             Found(COLLABORATION_KEYWORDS, text))),
               "Limited collaboration signals (common for individual contributors)")

_score_cultural_fit(candidate, text) ==
    LET English(acc, english_score) ==
            IF candidate.english_level # "Not stated"
            THEN [evidence |-> Append(acc.evidence, "English: " \o candidate.english_level),
                  score    |-> FAdd(acc.score, FMul(FInt(english_score - 5), FDec(3, 10)))]
            ELSE acc
        Remote(acc) ==
            Raise(acc, \E kw \in {"remote", "flexible", "work from home", "wfh"} : StrIn(kw, text),
                  FDec(5, 10), "Remote work experience/preference")
        Deadline(acc) ==
            Raise(acc, \E word \in {"deadline", "pressure", "fast-paced"} : StrIn(word, text),
                  FDec(5, 10), "Deadline awareness mentioned")
        LookingFor(acc) ==
            IF candidate.looking_for # "Not stated"
            THEN [acc EXCEPT !.evidence = Append(@, "Stated job preferences available")]
            ELSE acc
    IN  Scored(LookingFor(Deadline(Remote(English([score |-> FDec(60, 10), evidence |-> <<>>],
                                                  EnglishScoreGet(candidate.english_level, 5))))),
               "Standard fit indicators")

EDU_KEYWORDS ==
    <<"degree", "bachelor", "master", "university", "college",
      "course", "certificate", "certification", "diploma",
      "school", "academy", "bootcamp">>

_score_education(text, seed) ==
    LET Keywords(acc, edu_found) ==
            IF edu_found # <<>>
            THEN [evidence |-> Append(acc.evidence, "Education signals: "
                                   \o Join(Take(ListOfSet(edu_found, seed), 3), ", ")),
                  score    |-> FBonus(acc.score, FDec(30, 10), edu_found, FDec(5, 10))]
            ELSE acc
        Training(acc) ==
            Raise(acc, \E word \in {"animation course", "artcraft", "motion academy"} :
                           StrIn(word, text),
                  FInt(1), "Relevant animation training")
    IN  Scored(Training(Keywords([score |-> FDec(50, 10), evidence |-> <<>>],
                                 Found(EDU_KEYWORDS, text))),
               "No formal education stated (not penalized)")

\* A variant of weighted_score that leaves out the factor ten.
UnscaledWeightedScore(ds) == FMul(ds.score, ds.weight)

\* src/candidate.py: DimensionScore.weighted_score
weighted_score(ds) == FMul(FMul(ds.score, ds.weight), FInt(10))

\* sum(ds.weighted_score for ds in dimension_scores.values()): the values in
\* the order of the dictionary, added from the left to the int 0
RECURSIVE SumWeighted(_, _)
SumWeighted(dimension_scores, n) ==
    IF n = 0 THEN FInt(0)
    ELSE FAdd(SumWeighted(dimension_scores, n - 1), weighted_score(dimension_scores[DimKeys[n]]))

\* sorted(keys, key=score, reverse=True): stable, so dimensions of equal
\* score keep their dictionary order
RECURSIVE SortedDesc(_, _)
SortedDesc(dimension_scores, n) ==
    IF n = 0 THEN <<>>
    ELSE LET \* the new key goes after every key whose score is not smaller
             Insert(prev, pos) ==
                 SubSeq(prev, 1, pos) \o <<DimKeys[n]>> \o SubSeq(prev, pos + 1, Len(prev))
             Place(prev) ==
                 Insert(prev, Cardinality({i \in 1..Len(prev) :
                            ~FLt(dimension_scores[prev[i]].score,
                                 dimension_scores[DimKeys[n]].score)}))
         IN  Place(SortedDesc(dimension_scores, n - 1))

\* A variant of TopStrengths that leaves out the slice: `sorted_dims` in
\* place of `sorted_dims[:3]`.
AllSortedDimensions(dimension_scores) == SortedDesc(dimension_scores, Len(DimKeys))

\* A variant of TopStrengths that leaves out the sort: the first three
\* dimensions of the dictionary.
FirstThreeDimensions(dimension_scores) == Take(DimKeys, 3)

\* sorted_dims[:3]
TopStrengths(dimension_scores) == Take(SortedDesc(dimension_scores, Len(DimKeys)), 3)

ZeroCoreReason ==
    "Core competencies do not match required role stack (no relevant tools detected)"

\* A variant of ZeroCoreRejects for a configuration with
\* CORE_COMPETENCY_ZERO_REJECT = False.
ZeroCoreNeverRejects(core_score) == FALSE

\* CORE_COMPETENCY_ZERO_REJECT and core_score == 0
ZeroCoreRejects(core_score) == CORE_COMPETENCY_ZERO_REJECT /\ core_score = FZero

\* A variant of IsWeak with the bound of a concern, 5, in place of 4.
IsBelowFive(ds) == FLt(ds.score, FInt(5))

\* ds.score < 4
IsWeak(ds) == FLt(ds.score, FInt(4))

\* ds.score >= 6
IsStrength(ds) == FGe(ds.score, FInt(6))

\* A variant of IsConcern with the bound of a weak area, 4, in place of 5.
IsBelowFour(ds) == FLt(ds.score, FInt(4))

\* ds.score < 5
IsConcern(ds) == FLt(ds.score, FInt(5))

RECURSIVE WeakAreas(_, _)
WeakAreas(dimension_scores, keys) ==
    IF keys = <<>> THEN <<>>
    ELSE (IF IsWeak(dimension_scores[keys[1]])
          THEN <<"Weak " \o dimension_scores[keys[1]].name \o ": "
                 \o Fmt1(dimension_scores[keys[1]].score) \o "/10">>
          ELSE <<>>)
         \o WeakAreas(dimension_scores, Tail(keys))

\* f"{ds.name} ({int(ds.weight*100)}%): " and the first evidence string
ShortlistReason(ds) ==
    ds.name \o " (" \o ToString(FTrunc(FMul(ds.weight, FInt(100)))) \o "%): "
    \o (IF ds.evidence # <<>> THEN ds.evidence[1] ELSE "")

RECURSIVE ShortlistReasons(_, _)
ShortlistReasons(dimension_scores, keys) ==
    IF keys = <<>> THEN <<>>
    ELSE (IF IsStrength(dimension_scores[keys[1]])
          THEN <<ShortlistReason(dimension_scores[keys[1]])>>
          ELSE <<>>)
         \o ShortlistReasons(dimension_scores, Tail(keys))

RECURSIVE Concerns(_, _)
Concerns(dimension_scores, keys) ==
    IF keys = <<>> THEN <<>>
    ELSE (IF IsConcern(dimension_scores[keys[1]])
          THEN <<"Limited " \o Lower(dimension_scores[keys[1]].name) \o " signals">>
          ELSE <<>>)
         \o Concerns(dimension_scores, Tail(keys))

\* A variant of _determine_status that collects the concerns before the
\* threshold test and returns them with a rejection below the threshold.
_determine_status_with_concerns(final_score, band, dimension_scores, core_score) ==
    IF ZeroCoreRejects(core_score)
    THEN [status |-> "Rejected", shortlist_reasons |-> <<>>, concerns |-> <<>>,
          rejection_reasons |-> <<ZeroCoreReason>>]
    ELSE IF FLt(final_score, FInt(REJECTION_THRESHOLD))
    THEN [status |-> "Rejected", shortlist_reasons |-> <<>>,
          concerns |-> Concerns(dimension_scores, DimKeys),
          rejection_reasons |->
              <<"Score " \o Fmt1(final_score) \o " below threshold ("
                \o ToString(REJECTION_THRESHOLD) \o ")">>
              \o WeakAreas(dimension_scores, DimKeys)]
    ELSE [status |-> "Shortlisted",
          shortlist_reasons |-> ShortlistReasons(dimension_scores, TopStrengths(dimension_scores)),
          concerns |-> Concerns(dimension_scores, DimKeys),
          rejection_reasons |-> <<>>]

\* (status, shortlist_reasons, concerns, rejection_reasons)
_determine_status(final_score, band, dimension_scores, core_score) ==
    IF ZeroCoreRejects(core_score)
    THEN [status |-> "Rejected", shortlist_reasons |-> <<>>, concerns |-> <<>>,
          rejection_reasons |-> <<ZeroCoreReason>>]
    ELSE IF FLt(final_score, FInt(REJECTION_THRESHOLD))
    THEN [status |-> "Rejected", shortlist_reasons |-> <<>>, concerns |-> <<>>,
          rejection_reasons |->
              <<"Score " \o Fmt1(final_score) \o " below threshold ("
                \o ToString(REJECTION_THRESHOLD) \o ")">>
              \o WeakAreas(dimension_scores, DimKeys)]
    ELSE [status |-> "Shortlisted",
          shortlist_reasons |-> ShortlistReasons(dimension_scores, TopStrengths(dimension_scores)),
          concerns |-> Concerns(dimension_scores, DimKeys),
          rejection_reasons |-> <<>>]

\* src/candidate.py: the DimensionScore evaluate() builds for the dimension
\* `key` from the (score, evidence) the scoring method returned
DimensionScore(name, scored, key) ==
    [name |-> name, score |-> scored.score, weight |-> DIMENSION_WEIGHTS[key],
     evidence |-> scored.evidence]

\* A variant of EvaluationResult in which a flagged result drops the reasons
\* the decision gave.
EvaluationResultDroppingReasons(candidate_id, dimension_scores, final_score, band, status, shortlist_reasons, concerns, rejection_reasons, bias_flags) ==
    [candidate_id      |-> candidate_id,
     dimension_scores  |-> dimension_scores,
     final_score       |-> final_score,
     band              |-> band,
     status            |-> status,
     shortlist_reasons |-> IF status = "Flagged for Review" THEN <<>> ELSE shortlist_reasons,
     concerns          |-> IF status = "Flagged for Review" THEN <<>> ELSE concerns,
     rejection_reasons |-> IF status = "Flagged for Review" THEN <<>> ELSE rejection_reasons,
     bias_flags        |-> bias_flags]

\* src/candidate.py: EvaluationResult
EvaluationResult(candidate_id, dimension_scores, final_score, band, status, shortlist_reasons, concerns, rejection_reasons, bias_flags) ==
    [candidate_id      |-> candidate_id,
     dimension_scores  |-> dimension_scores,
     final_score       |-> final_score,
     band              |-> band,
     status            |-> status,
     shortlist_reasons |-> shortlist_reasons,
     concerns          |-> concerns,
     rejection_reasons |-> rejection_reasons,
     bias_flags        |-> bias_flags]

\* A variant of OverrideStatus that keeps the status of the decision.
KeepStatus(is_flagged, status) == status

\* if is_flagged: status = "Flagged for Review"
OverrideStatus(is_flagged, status) == IF is_flagged THEN "Flagged for Review" ELSE status

\* evaluate(), from "Calculate final score" to the return. A frame is what
\* the call held when it returned: the verdict of the bias guard, the tuple
\* _determine_status returned (the score-based decision) and the result.
BuildResult(candidate_id, dimension_scores, core_score, bias) ==
    LET Return(final_score, band, decision) ==
            [raised   |-> FALSE,
             bias     |-> bias,
             decision |-> decision,
             result   |-> EvaluationResult(candidate_id, dimension_scores, final_score, band,
                                           OverrideStatus(bias.is_flagged, decision.status),
                                           decision.shortlist_reasons, decision.concerns,
                                           decision.rejection_reasons, bias.issues)]
        Decide(final_score, band) ==
            Return(final_score, band,
                   _determine_status(final_score, band, dimension_scores, core_score))
        Band(final_score) == Decide(final_score, get_score_band(final_score))
    IN  Band(SumWeighted(dimension_scores, Len(DimKeys)))

\* evaluate(candidate) in a process whose string hash seed is `seed`;
\* raised = TRUE when the call ends in the TypeError of _score_experience
evaluate(candidate, seed) ==
    LET Dimensions(scored) ==
            [core_competencies |->
                 DimensionScore("Core Competencies", scored.core_competencies,
                                "core_competencies"),
             experience_results |->
                 DimensionScore("Experience & Results", scored.experience_results,
                                "experience_results"),
             collaboration_signals |->
                 DimensionScore("Collaboration Signals", scored.collaboration_signals,
                                "collaboration_signals"),
             cultural_practical_fit |->
                 DimensionScore("Cultural & Practical Fit", scored.cultural_practical_fit,
                                "cultural_practical_fit"),
             education_other |->
                 DimensionScore("Education & Other Signals", scored.education_other,
                                "education_other")]
        Scores(bias, scored) ==
            IF scored.experience_results.raised
            THEN [raised |-> TRUE]
            ELSE BuildResult(candidate.id, Dimensions(scored),
                             scored.core_competencies.score, bias)
        Text(bias, full_text) ==
            Scores(bias,
                   [core_competencies      |-> _score_core_competencies(full_text, seed),
                    experience_results     |-> _score_experience(candidate, full_text),
                    collaboration_signals  |-> _score_collaboration(full_text),
                    cultural_practical_fit |-> _score_cultural_fit(candidate, full_text),
                    education_other        |-> _score_education(full_text, seed)])
    IN  Text(check_candidate(candidate.cv_text, candidate.additional_info, seed),
             _combine_text(candidate))
(***************************************************************************)
(* The dashboard (src/app.py) and the advice service                       *)
(* (src/src/gemini_advisor.py).                                            *)
(***************************************************************************)

\* round(x, 1) for a float x >= 0: the double nearest to the decimal with one
\* fractional digit that is nearest to x
FRound1(x) == FDec(FTenths(x), 10)

\* a / n for a float a >= 0 and an int n > 0: the quotient of the mantissa
\* to 75 more bits with a sticky last bit, then rounded
FDivInt(a, n) ==
    LET Quot(num) ==
            FRound(a.neg,
                   BigAdd(BigShl(BigDivSmall(num, n), 1),
                          BigOfInt(IF BigModSmall(num, n) = 0 THEN 0 ELSE 1)),
                   a.e - (5 * LimbBits) - 1)
    IN  IF a.m = <<>> THEN FZero ELSE Quot(BigShl(a.m, 5 * LimbBits))

\* src/candidate.py: EvaluationResult.to_dict
to_dict(result) ==
    [candidate_id      |-> result.candidate_id,
     final_score       |-> FRound1(result.final_score),
     band              |-> result.band,
     status            |-> result.status,
     dimension_scores  |->
         [name \in DOMAIN result.dimension_scores |->
             [score                 |-> FRound1(result.dimension_scores[name].score),
              weight                |-> result.dimension_scores[name].weight,
              weighted_contribution |->
                  FRound1(weighted_score(result.dimension_scores[name])),
              evidence              |-> result.dimension_scores[name].evidence]],
     shortlist_reasons |-> result.shortlist_reasons,
     concerns          |-> result.concerns,
     rejection_reasons |-> result.rejection_reasons,
     bias_flags        |-> result.bias_flags]

\* GeminiAdvisor(): initialized when the API key is set, the library imports
\* and genai.configure / GenerativeModel raise nothing
GeminiAdvisor(api_key, library, configure_fails) ==
    [created |-> TRUE, _initialized |-> api_key /\ library /\ ~configure_fails]

\* not gemini or not gemini.is_available
Unavailable(advisor) == ~advisor.created \/ ~advisor._initialized

\* The replies of the upstream model to generate_content: an exception, or
\* a response with a text.
AdviceText ==
    "{\"interview_focus\": [\"Spine rigging\"], \"skill_gaps\": [\"No Unity\"], "
    \o "\"hiring_confidence\": \"High\", \"next_steps\": \"Interview\"}"

\* The fence mark of a Markdown code block, three grave accents in the
\* source; a string of this language cannot hold that character, and "~~~"
\* stands for the mark in every text of the model.
Fence == "~~~"

NoReply == [kind |-> "none", text |-> ""]

Replies ==
    {[kind |-> "raise", text |-> "503 Service Unavailable"],
     [kind |-> "text",  text |-> AdviceText],
     [kind |-> "text",  text |-> Fence \o "json\n" \o AdviceText \o "\n" \o Fence],
     [kind |-> "text",  text |-> " " \o AdviceText \o "\n"],
     [kind |-> "text",  text |-> "I cannot assess this candidate."],
     [kind |-> "text",  text |-> ""]}

\* json.loads(text) for the texts the replies lead to: the one JSON
\* document among them parses, every other text is a JSONDecodeError
json_loads(text) ==
    IF text = AdviceText
    THEN [ok    |-> TRUE,
          value |-> [interview_focus   |-> <<"Spine rigging">>,
                     skill_gaps        |-> <<"No Unity">>,
                     hiring_confidence |-> "High",
                     next_steps        |-> "Interview"]]
    ELSE [ok |-> FALSE, value |-> <<>>]

\* text.split("\n")
RECURSIVE SplitLines(_, _)
SplitLines(text, from) ==
    LET breaks == {i \in from..Len(text) : SubSeq(text, i, i) = "\n"}
        Cut(i) == <<SubSeq(text, from, i - 1)>> \o SplitLines(text, i + 1)
    IN  IF breaks = {} THEN <<SubSeq(text, from, Len(text))>>
        ELSE Cut(CHOOSE i \in breaks : \A j \in breaks : i <= j)

\* src/gemini_advisor.py: GeminiAdvisor._parse_response
_parse_response(response_text) ==
    LET Loads(text, parsed) ==
            IF parsed.ok THEN parsed.value
            ELSE [interview_focus   |-> <<"Unable to parse AI response">>,
                  skill_gaps        |-> <<>>,
                  hiring_confidence |-> "Review manually",
                  next_steps        |-> IF text # "" THEN Take(text, 200) ELSE "No response"]
        Parse(text) == Loads(text, json_loads(text))
        Inner(lines) == Parse(Join(SubSeq(lines, 2, Len(lines) - 1), "\n"))
        Unfenced(text) ==
            IF Take(text, Len(Fence)) = Fence THEN Inner(SplitLines(text, 1)) ELSE Parse(text)
    IN  Unfenced(Strip(response_text))

\* src/gemini_advisor.py: GeminiAdvisor.generate_advice, for the reply the
\* upstream call gets
generate_advice(advisor, evaluation_result, reply) ==
    IF Unavailable(advisor)
    THEN [error             |-> "Gemini API not configured",
          interview_focus   |-> <<>>,
          skill_gaps        |-> <<>>,
          hiring_confidence |-> "N/A",
          next_steps        |-> "Configure GEMINI_API_KEY to enable AI advice"]
    ELSE IF reply.kind = "raise"
    THEN [error             |-> reply.text,
          interview_focus   |-> <<>>,
          skill_gaps        |-> <<>>,
          hiring_confidence |-> "Error",
          next_steps        |-> "API error: " \o reply.text]
    ELSE _parse_response(reply.text)

\* A variant of ResultAfterAdvice for a _build_prompt that cuts each
\* evidence list to its first two entries in place.
ResultAfterTruncatingAdvice(result) ==
    [result EXCEPT !.dimension_scores =
        [name \in DOMAIN result.dimension_scores |->
            [result.dimension_scores[name] EXCEPT !.evidence = Take(@, 2)]]]

\* What a stored result holds after get_advice: to_dict() hands the evidence
\* and reason lists of the result themselves to generate_advice, and
\* _build_prompt reads them (evidence[:2] is a copy) and assigns to none.
ResultAfterAdvice(result) == result

(***************************************************************************)
(* Inputs: the rows of the dataset.                                        *)
(***************************************************************************)
NumSeeds == 2
MaxRuns  == 2
MaxBatch == 2

Seeds == 0..(NumSeeds - 1)

ScenarioText ==
    "after effects, rigging, collaborated with team, 2 years experience, fluent English"

CvTexts ==
    {"",
     ScenarioText,
     "Painter and sculptor. University degree.",
     "Illustrator, storyboard artist. Worked on cartoon projects, built a portfolio for a client.",
     "Rigging, VFX and storyboard. Collaborated with a team; feedback via Jira.",
     "Toon Boom Harmony, Spine 2D, Adobe Photoshop, Unity3D; character animation, rigging, VFX, frame-by-frame, motion graphics, storyboard. Shipped mobile games projects for a client. Team of 5: feedback, Jira, Slack. Remote, deadline. University degree, animation course.",
     "Krita, Moho and Photoshop. Flexible, independent, willing to learn.",
     "Shipped projects for a client. Team of 5: feedback, iterate, learning, independent, communication, Jira, Slack, Git. Remote, deadline. University degree, bachelor, master, college, diploma; animation course."}

AdditionalInfos == {"", "I am a 28 years old woman"}

EnglishLevels == {"Advanced", "Intermediate", "Basic", "Not stated"}

YearsValues == {PyInt(2), PyFloat(7500), PyStr("Not stated"), PyNaN}

Row(cv, info, english, years, highlights, looking_for) ==
    [cv_text |-> cv, additional_info |-> info, english_level |-> english,
     years_experience |-> years, highlights |-> highlights, looking_for |-> looking_for]

\* Every text with every English level and every years value, and every
\* text with a demographic statement beside it.
Rows ==
    {Row(cv, "", english, years, "Not stated", "Not stated") :
        cv \in CvTexts, english \in EnglishLevels, years \in YearsValues}
    \cup {Row(cv, "I am a 28 years old woman", english, PyInt(2), "Not stated", "Not stated") :
        cv \in CvTexts, english \in {"Advanced", "Intermediate"}}
    \cup {Row(ScenarioText, "", "Fluent", PyStr("3"), "Spine animator, single player games", "Remote job"),
          Row(ScenarioText, "Single", "Advanced", PyInt(2), "Not stated", "Not stated"),
          Row("", "", "Not stated", PyNone, "Not stated", "Not stated")}

\* The rows of the datasets of more than one row: the same texts with and
\* without a demographic statement.
BatchRows ==
    {Row(cv, info, "Advanced", PyInt(2), "Not stated", "Not stated") :
        cv \in {ScenarioText,
                "Krita, Moho and Photoshop. Flexible, independent, willing to learn."},
        info \in AdditionalInfos}

\* src/candidate.py: from_csv_row, for the row at index row_idx
from_csv_row(row, row_idx) ==
    [id               |-> ToString(row_idx + 1),
     position         |-> "2D Animator",
     english_level    |-> row.english_level,
     years_experience |-> row.years_experience,
     cv_text          |-> row.cv_text,
     highlights       |-> row.highlights,
     looking_for      |-> row.looking_for,
     additional_info  |-> row.additional_info]

\* src/loader.py: load_candidates
load_candidates(rows) == [i \in 1..Len(rows) |-> from_csv_row(rows[i], i - 1)]

RECURSIVE SeqsUpTo(_, _)
SeqsUpTo(S, n) ==
    IF n = 0 THEN {<<>>}
    ELSE LET shorter == SeqsUpTo(S, n - 1)
         IN  shorter \cup {Append(q, x) : q \in {r \in shorter : Len(r) = n - 1}, x \in S}

\* A dataset is one row, or up to MaxBatch of the batch rows, or the
\* scenario row beside a row whose years cell is empty (a NaN), in either
\* order.
Datasets ==
    LET Mixed(row, empty) == {<<row, empty>>, <<empty, row>>}
    IN  {<<row>> : row \in Rows}
        \cup (SeqsUpTo(BatchRows, MaxBatch) \ {<<>>})
        \cup Mixed(Row(ScenarioText, "", "Advanced", PyInt(2), "Not stated", "Not stated"),
                  Row(ScenarioText, "", "Advanced", PyNaN, "Not stated", "Not stated"))

\* Every candidate a specification evaluates, and its evaluation under every
\* hash seed, computed once.
AllCandidates ==
    UNION {{load_candidates(d)[i] : i \in 1..Len(d)} : d \in Datasets}

Evaluations ==
    LET Computed(table) == IF table = table THEN table ELSE table
    IN  Computed([c \in AllCandidates |-> [seed \in Seeds |-> evaluate(c, seed)]])

(***************************************************************************)
(* The program: a process starts with a fresh hash seed, loads the dataset *)
(* and evaluates it candidate by candidate (evaluate_batch); a TypeError   *)
(* ends the process. A later run of the program evaluates the same         *)
(* dataset again.                                                          *)
(***************************************************************************)
VARIABLES
    hashSeed,     \* the string hash seed of the running process
    to_evaluate,  \* the candidates loaded from the dataset
    results,      \* the EvaluationResults of this run, in order
    bias_checks,  \* what check_candidate returned for each of them
    decisions,    \* what _determine_status returned for each of them
    error,        \* "" or the exception that ended this run
    previous,     \* the results of the run before this one
    run,          \* the number of runs started
    evaluation_results, \* the dashboard's store, in insertion order
    gemini,       \* the dashboard's advisor
    response,     \* the last response of the dashboard
    upstream      \* the reply of the model to the last request's call

vars == <<hashSeed, to_evaluate, results, bias_checks, decisions, error, previous, run, evaluation_results, gemini, response, upstream>>

\* what the dashboard holds while it is not started
app == <<evaluation_results, gemini, response, upstream>>

\* the globals of src/app.py as the module sets them: no result stored,
\* gemini = None, and no request answered
AppIdle ==
    /\ evaluation_results = <<>>
    /\ gemini = [created |-> FALSE, _initialized |-> FALSE]
    /\ response = [route |-> "none", status |-> 0]
    /\ upstream = NoReply

Init ==
    /\ hashSeed \in Seeds
    /\ to_evaluate \in {load_candidates(d) : d \in Datasets}
    /\ results = <<>>
    /\ bias_checks = <<>>
    /\ decisions = <<>>
    /\ error = ""
    /\ previous = <<>>
    /\ run = 1
    /\ AppIdle

\* one iteration of evaluate_batch
Evaluate ==
    /\ error = ""
    /\ Len(results) < Len(to_evaluate)
    /\ LET Return(frame) ==
               IF frame.raised
               THEN /\ error' = "TypeError"
                    /\ UNCHANGED <<results, bias_checks, decisions>>
               ELSE /\ results' = Append(results, frame.result)
                    /\ bias_checks' = Append(bias_checks, frame.bias)
                    /\ decisions' = Append(decisions, frame.decision)
                    /\ UNCHANGED error
       IN  Return(Evaluations[to_evaluate[Len(results) + 1]][hashSeed])
    /\ UNCHANGED <<hashSeed, to_evaluate, previous, run, app>>

\* the program ends and is started again on the same dataset
Restart ==
    /\ error # "" \/ Len(results) = Len(to_evaluate)
    /\ run < MaxRuns
    /\ hashSeed' \in Seeds
    /\ previous' = results
    /\ results' = <<>>
    /\ bias_checks' = <<>>
    /\ decisions' = <<>>
    /\ error' = ""
    /\ run' = run + 1
    /\ UNCHANGED <<to_evaluate, app>>

Next == Evaluate \/ Restart

Spec == Init /\ [][Next]_vars


(***************************************************************************)
(* The dashboard: init_app evaluates the dataset once and creates the      *)
(* advisor; after it the three routes answer requests.                     *)
(***************************************************************************)
\* The datasets the dashboard is started on: one row of the longest text
\* with a number or a NaN for its years, or up to MaxBatch batch rows.
AppDatasets ==
    LET Single(cv) ==
            {<<Row(cv, "", "Advanced", years, "Not stated", "Not stated")>> : years \in {PyInt(2), PyNaN}}
        Batches(rows) == SeqsUpTo(rows, MaxBatch) \ {<<>>}
    IN  Single(CHOOSE cv \in CvTexts : \A other \in CvTexts : Len(other) <= Len(cv))
        \cup Batches({row \in BatchRows : row.cv_text = ScenarioText \/ row.additional_info = ""})

\* The ids a request names: those of the rows, and one of no row.
RequestIds == {ToString(n) : n \in 0..MaxBatch}

AppInit ==
    /\ hashSeed \in Seeds
    /\ to_evaluate \in {load_candidates(d) : d \in AppDatasets}
    /\ results = <<>>
    /\ bias_checks = <<>>
    /\ decisions = <<>>
    /\ error = ""
    /\ previous = <<>>
    /\ run = 1
    /\ AppIdle

\* what the command line program holds, but for error
cli == <<hashSeed, to_evaluate, results, bias_checks, decisions, previous, run>>

\* the entries of evaluation_results under candidate_id: none when
\* candidate_id not in evaluation_results, else evaluation_results[candidate_id]
Entries(candidate_id) == SelectSeq(evaluation_results, LAMBDA entry : entry.id = candidate_id)

NotFound == [route |-> "error", status |-> 404, body |-> [error |-> "Candidate not found"]]

\* src/app.py: init_app. The loop stores the results one by one, so a
\* TypeError of evaluate leaves the entries before it in the store and no
\* advisor.
init_app ==
    /\ ~gemini.created
    /\ error = ""
    /\ LET Store(frames, n) ==
               evaluation_results' =
                   [i \in 1..n |-> [id        |-> to_evaluate[i].id,
                                    candidate |-> to_evaluate[i],
                                    result    |-> frames[i].result]]
           Loop(frames, failing) ==
               IF failing = {}
               THEN /\ Store(frames, Len(frames))
                    /\ \E api_key, library, configure_fails \in BOOLEAN :
                           gemini' = GeminiAdvisor(api_key, library, configure_fails)
                    /\ UNCHANGED error
               ELSE /\ Store(frames, (CHOOSE i \in failing : \A j \in failing : i <= j) - 1)
                    /\ error' = "TypeError"
                    /\ UNCHANGED gemini
           Run(frames) == Loop(frames, {i \in 1..Len(frames) : frames[i].raised})
       IN  Run([i \in 1..Len(to_evaluate) |-> Evaluations[to_evaluate[i]][hashSeed]])
    /\ UNCHANGED <<cli, response, upstream>>

\* sorted(xs, key=lambda x: x["final_score"], reverse=True): stable, so
\* equal scores keep their order
RECURSIVE SortedByScore(_)
SortedByScore(xs) ==
    LET Best(i) == \A j \in 1..Len(xs) :
                       /\ ~FLt(xs[i].final_score, xs[j].final_score)
                       /\ (j < i => FLt(xs[j].final_score, xs[i].final_score))
        Pick(i) == <<xs[i]>> \o SortedByScore(SubSeq(xs, 1, i - 1) \o SubSeq(xs, i + 1, Len(xs)))
    IN  IF xs = <<>> THEN <<>> ELSE Pick(CHOOSE i \in 1..Len(xs) : Best(i))

\* sum(r["final_score"] for r in results), over the first n
RECURSIVE SumScores(_, _)
SumScores(xs, n) == IF n = 0 THEN FZero ELSE FAdd(SumScores(xs, n - 1), xs[n].final_score)

\* the body of GET /api/candidates
CandidateList(store) ==
    LET Summary(entry) ==
            [id               |-> entry.id,
             position         |-> entry.candidate.position,
             english_level    |-> entry.candidate.english_level,
             years_experience |-> entry.candidate.years_experience,
             final_score      |-> FRound1(entry.result.final_score),
             band             |-> entry.result.band,
             status           |-> entry.result.status]
        CountStatus(xs, status) == Cardinality({i \in 1..Len(xs) : xs[i].status = status})
        Body(xs) ==
            [candidates |-> xs,
             summary    |->
                 [total       |-> Len(xs),
                  shortlisted |-> CountStatus(xs, "Shortlisted"),
                  rejected    |-> CountStatus(xs, "Rejected"),
                  flagged     |-> CountStatus(xs, "Flagged for Review"),
                  avg_score   |-> IF xs = <<>> THEN FZero
                                  ELSE FRound1(FDivInt(SumScores(xs, Len(xs)), Len(xs)))]]
    IN  Body(SortedByScore([i \in 1..Len(store) |-> Summary(store[i])]))

\* src/app.py: get_candidates
get_candidates ==
    /\ gemini.created
    /\ response' = [route |-> "candidates", status |-> 200, body |-> CandidateList(evaluation_results)]
    /\ upstream' = NoReply
    /\ UNCHANGED <<cli, error, evaluation_results, gemini>>

\* the body of GET /api/candidate/<candidate_id>
CandidateDetail(candidate_id, entry) ==
    LET Cut(text, n, mark) == IF Len(text) > n THEN Take(text, n) \o mark ELSE text
    IN  [id         |-> candidate_id,
         candidate  |->
             [position         |-> entry.candidate.position,
              english_level    |-> entry.candidate.english_level,
              years_experience |-> entry.candidate.years_experience,
              cv_text          |-> Cut(entry.candidate.cv_text, 800, "..."),
              highlights       |-> entry.candidate.highlights,
              looking_for      |-> entry.candidate.looking_for,
              additional_info  |-> Cut(entry.candidate.additional_info, 500, "")],
         evaluation |-> to_dict(entry.result)]

\* src/app.py: get_candidate
get_candidate ==
    /\ gemini.created
    /\ \E candidate_id \in RequestIds :
           response' = IF Entries(candidate_id) = <<>> THEN NotFound
                       ELSE [route  |-> "candidate", status |-> 200,
                             id     |-> candidate_id,
                             body   |-> CandidateDetail(candidate_id, Entries(candidate_id)[1])]
    /\ upstream' = NoReply
    /\ UNCHANGED <<cli, error, evaluation_results, gemini>>

\* the payload of /api/advice while the advisor is not available
AdviceNotConfigured ==
    [error  |-> "Gemini API not configured",
     advice |-> [interview_focus   |-> <<"Configure GEMINI_API_KEY to enable">>,
                 skill_gaps        |-> <<>>,
                 hiring_confidence |-> "N/A",
                 next_steps        |-> "Add your Gemini API key to .env file"]]

\* src/app.py: get_advice. The model is called only for a stored candidate
\* and an available advisor.
get_advice ==
    /\ gemini.created
    /\ \E candidate_id \in RequestIds, reply \in Replies :
           IF Entries(candidate_id) = <<>>
           THEN /\ response' = NotFound
                /\ upstream' = NoReply
                /\ UNCHANGED evaluation_results
           ELSE IF Unavailable(gemini)
           THEN /\ response' = [route |-> "advice", status |-> 200,
                                id    |-> candidate_id, body |-> AdviceNotConfigured]
                /\ upstream' = NoReply
                /\ UNCHANGED evaluation_results
           ELSE /\ response' =
                       [route |-> "advice", status |-> 200, id |-> candidate_id,
                        body  |-> [advice |-> generate_advice(gemini, to_dict(Entries(candidate_id)[1].result), reply)]]
                /\ upstream' = reply
                /\ evaluation_results' =
                       [i \in 1..Len(evaluation_results) |->
                           IF evaluation_results[i].id = candidate_id
                           THEN [evaluation_results[i] EXCEPT !.result = ResultAfterAdvice(@)]
                           ELSE evaluation_results[i]]
    /\ UNCHANGED <<cli, error, gemini>>

AppNext == init_app \/ get_candidates \/ get_candidate \/ get_advice

SpecApp == AppInit /\ [][AppNext]_vars
(***************************************************************************)
(* Properties of the evaluation.                                           *)
(***************************************************************************)
Evaluated == 1..Len(results)

CoreScore(result) == result.dimension_scores.core_competencies.score

F0   == FInt(0)
F10  == FInt(10)
F100 == FInt(100)

\* C1: a candidate the bias guard flagged gets the status "Flagged for
\* Review", whatever the score-based decision and the final score are.
C1_FlaggedForReview ==
    \A i \in Evaluated :
        bias_checks[i].is_flagged => results[i].status = "Flagged for Review"

\* a flagged candidate that the scores alone would have shortlisted
C1_Witness ==
    \E i \in Evaluated :
        /\ bias_checks[i].is_flagged
        /\ decisions[i].status = "Shortlisted"
        /\ results[i].status = "Flagged for Review"

\* C2: the bias override changes the status only. Two evaluations with the
\* same five dimension scores and evidence have the same final score, band,
\* score-based decision and reason lists, each result holds the reason lists
\* of its decision unchanged, and their statuses differ only when the
\* verdicts of the bias guard differ.
C2_OverrideChangesOnlyStatus ==
    \A i, j \in Evaluated :
        results[i].dimension_scores = results[j].dimension_scores =>
            /\ results[i].final_score = results[j].final_score
            /\ results[i].band = results[j].band
            /\ decisions[i] = decisions[j]
            /\ results[i].shortlist_reasons = decisions[i].shortlist_reasons
            /\ results[i].concerns = decisions[i].concerns
            /\ results[i].rejection_reasons = decisions[i].rejection_reasons
            /\ results[i].shortlist_reasons = results[j].shortlist_reasons
            /\ results[i].concerns = results[j].concerns
            /\ results[i].rejection_reasons = results[j].rejection_reasons
            /\ (results[i].status # results[j].status =>
                   bias_checks[i].is_flagged # bias_checks[j].is_flagged)

\* two candidates of one batch with the same scores and evidence, one of
\* them flagged, both with reasons to shortlist
C2_Witness ==
    \E i, j \in Evaluated :
        /\ results[i].dimension_scores = results[j].dimension_scores
        /\ bias_checks[i].is_flagged /\ ~bias_checks[j].is_flagged
        /\ results[i].status = "Flagged for Review" /\ results[j].status = "Shortlisted"
        /\ results[i].shortlist_reasons # <<>>

\* C3: a Core Competencies score of exactly 0 makes the score-based decision
\* Rejected, with the one fixed reason and no other, and with no shortlist
\* reason and no concern, whatever the other four scores are; the status is
\* Rejected unless the bias guard flagged the candidate.
C3_ZeroCoreRejected ==
    \A i \in Evaluated :
        CoreScore(results[i]) = FZero =>
            /\ decisions[i] =
                   [status            |-> "Rejected",
                    shortlist_reasons |-> <<>>,
                    concerns          |-> <<>>,
                    rejection_reasons |->
                        <<"Core competencies do not match required role stack (no relevant tools detected)">>]
            /\ results[i].shortlist_reasons = <<>>
            /\ results[i].concerns = <<>>
            /\ results[i].rejection_reasons = decisions[i].rejection_reasons
            /\ results[i].status =
                   IF bias_checks[i].is_flagged THEN "Flagged for Review" ELSE "Rejected"

\* an unflagged candidate without any core signal whose experience scores 10
C3_Witness ==
    \E i \in Evaluated :
        /\ CoreScore(results[i]) = FZero
        /\ results[i].dimension_scores.experience_results.score = F10
        /\ ~bias_checks[i].is_flagged
        /\ results[i].status = "Rejected"

\* C4: each of the five dimension scores lies in [0, 10] and the final score
\* lies in [0, 100].
C4_ScoresInRange ==
    \A i \in Evaluated :
        /\ \A k \in DOMAIN results[i].dimension_scores :
               /\ FGe(results[i].dimension_scores[k].score, F0)
               /\ FGe(F10, results[i].dimension_scores[k].score)
        /\ FGe(results[i].final_score, F0)
        /\ FGe(F100, results[i].final_score)

\* an experience score that the cap holds at 10: two years (10) with the
\* bonus for project references
C4_Witness ==
    \E i \in Evaluated :
        /\ results[i].dimension_scores.experience_results.score = F10
        /\ \E n \in 1..Len(results[i].dimension_scores.experience_results.evidence) :
               results[i].dimension_scores.experience_results.evidence[n]
                   = "Multiple project references found"
        /\ to_evaluate[i].years_experience = PyInt(2)

\* the weights and the percentages of the five dimensions
Weight35 == FDec(35, 100)
Weight25 == FDec(25, 100)
Weight20 == FDec(20, 100)
Weight15 == FDec(15, 100)
Weight05 == FDec(5, 100)

F1  == FInt(1)
F4  == FInt(4)
F6  == FInt(6)
F60 == FInt(60)
F70 == FInt(70)
F84 == FInt(84)
F85 == FInt(85)

WeightedSum(ds) ==
    FAdd(FAdd(FAdd(FAdd(FMul(FMul(ds.core_competencies.score, Weight35), F10),
                        FMul(FMul(ds.experience_results.score, Weight25), F10)),
                   FMul(FMul(ds.collaboration_signals.score, Weight20), F10)),
              FMul(FMul(ds.cultural_practical_fit.score, Weight15), F10)),
         FMul(FMul(ds.education_other.score, Weight05), F10))

ScoresOf(result) == [k \in DOMAIN result.dimension_scores |-> result.dimension_scores[k].score]

\* C5: the final score is the sum over the five dimensions, in their fixed
\* order, of score x weight x 10 in double precision, with the weights 0.35,
\* 0.25, 0.20, 0.15 and 0.05, whose sum is exactly 1.0; two results with the
\* same five scores have the same final score.
C5_FinalScoreIsWeightedSum ==
    /\ FAdd(FAdd(FAdd(FAdd(Weight35, Weight25), Weight20), Weight15), Weight05) = F1
    /\ \A i \in Evaluated :
           /\ DOMAIN results[i].dimension_scores
                  = {"core_competencies", "experience_results", "collaboration_signals",
                     "cultural_practical_fit", "education_other"}
           /\ results[i].dimension_scores.core_competencies.weight = Weight35
           /\ results[i].dimension_scores.experience_results.weight = Weight25
           /\ results[i].dimension_scores.collaboration_signals.weight = Weight20
           /\ results[i].dimension_scores.cultural_practical_fit.weight = Weight15
           /\ results[i].dimension_scores.education_other.weight = Weight05
           /\ results[i].final_score = WeightedSum(results[i].dimension_scores)
    /\ \A i, j \in Evaluated :
           ScoresOf(results[i]) = ScoresOf(results[j])
               => results[i].final_score = results[j].final_score

\* a result whose five scores are all above 0 and not all alike
C5_Witness ==
    \E i \in Evaluated :
        /\ \A k \in DOMAIN results[i].dimension_scores :
               FLt(F0, results[i].dimension_scores[k].score)
        /\ CoreScore(results[i]) # results[i].dimension_scores.education_other.score
        /\ FLt(F60, results[i].final_score)

\* C6: the band of a result is Strong Fit when the final score is at least
\* 85, Good Fit when it is at least 70 and below 85, Borderline when it is at
\* least 60 and below 70, and Reject when it is below 60; results with the
\* same final score have the same band.
C6_BandByThreshold ==
    /\ \A i \in Evaluated :
           results[i].band =
               IF ~FLt(results[i].final_score, F85) THEN "Strong Fit"
               ELSE IF ~FLt(results[i].final_score, F70) THEN "Good Fit"
               ELSE IF ~FLt(results[i].final_score, F60) THEN "Borderline"
               ELSE "Reject"
    /\ \A i, j \in Evaluated :
           results[i].final_score = results[j].final_score
               => results[i].band = results[j].band

\* a Good Fit whose final score lies between 84 and 85
C6_Witness ==
    \E i \in Evaluated :
        /\ FLt(F84, results[i].final_score)
        /\ FLt(results[i].final_score, F85)
        /\ results[i].band = "Good Fit"

InRange(score, range) == FGe(score, FInt(range.lo)) /\ FGe(FInt(range.hi), score)

\* the label of the band of each key of SCORE_BANDS
BandLabel ==
    [strong_fit |-> "Strong Fit", good_fit |-> "Good Fit",
     borderline |-> "Borderline", reject |-> "Reject"]

\* C7: every final score of a result lies in exactly one range of
\* SCORE_BANDS, and the band of that range is the band of the result.
C7_TableAgreesWithBand ==
    \A i \in Evaluated :
        /\ Cardinality({n \in 1..Len(SCORE_BANDS) :
                            InRange(results[i].final_score, SCORE_BANDS[n])}) = 1
        /\ \A n \in 1..Len(SCORE_BANDS) :
               InRange(results[i].final_score, SCORE_BANDS[n])
                   => BandLabel[SCORE_BANDS[n].band] = results[i].band

\* a final score within [0, 100] between the ranges of two bands
C7_Witness ==
    \E i \in Evaluated :
        /\ FGe(results[i].final_score, F0)
        /\ FGe(F100, results[i].final_score)
        /\ \A n \in 1..Len(SCORE_BANDS) : ~InRange(results[i].final_score, SCORE_BANDS[n])
        /\ results[i].band = "Good Fit"

\* C8: evaluating the same profile twice gives the same result, within one
\* run and from one run of the program to the next.
C8_Idempotent ==
    /\ \A i, j \in Evaluated :
           to_evaluate[i] = to_evaluate[j] => results[i] = results[j]
    /\ \A i \in Evaluated :
           i <= Len(previous) => results[i] = previous[i]

\* the same profile evaluated in two runs, with the same scores and the same
\* evidence strings in another order
C8_Witness ==
    \E i \in Evaluated :
        /\ i <= Len(previous)
        /\ results[i] # previous[i]
        /\ results[i].final_score = previous[i].final_score
        /\ results[i].status = previous[i].status

WeakKeys(ds) == SelectSeq(DimKeys, LAMBDA k : FLt(ds[k].score, F4))

WeakMessages(ds) ==
    [n \in 1..Len(WeakKeys(ds)) |->
        "Weak " \o ds[WeakKeys(ds)[n]].name \o ": " \o Fmt1(ds[WeakKeys(ds)[n]].score) \o "/10"]

\* C9: with a Core Competencies score above 0 and a final score below 60 the
\* decision is Rejected without shortlist reasons and concerns, and its
\* rejection reasons are the threshold message followed by one message for
\* each dimension scoring below 4, in the order of the dimensions, and no
\* other.
C9_BelowThresholdRejected ==
    \A i \in Evaluated :
        FLt(F0, CoreScore(results[i])) /\ FLt(results[i].final_score, F60) =>
            /\ decisions[i].status = "Rejected"
            /\ decisions[i].shortlist_reasons = <<>>
            /\ decisions[i].concerns = <<>>
            /\ decisions[i].rejection_reasons =
                   <<"Score " \o Fmt1(results[i].final_score) \o " below threshold (60)">>
                   \o WeakMessages(results[i].dimension_scores)

\* a rejection below the threshold with a weak dimension and a dimension
\* scoring at least 4
C9_Witness ==
    \E i \in Evaluated :
        /\ FLt(F0, CoreScore(results[i]))
        /\ FLt(results[i].final_score, F60)
        /\ decisions[i].status = "Rejected"
        /\ Len(decisions[i].rejection_reasons) >= 2
        /\ \E k \in DOMAIN results[i].dimension_scores :
               ~FLt(results[i].dimension_scores[k].score, F4)

Percent ==
    [core_competencies      |-> "35",
     experience_results     |-> "25",
     collaboration_signals  |-> "20",
     cultural_practical_fit |-> "15",
     education_other        |-> "5"]

\* the place of dimension DimKeys[n] by descending score, dimensions of equal
\* score in the order of the dimensions
Rank(ds, n) ==
    1 + Cardinality({m \in 1..Len(DimKeys) :
            \/ FLt(ds[DimKeys[n]].score, ds[DimKeys[m]].score)
            \/ (ds[DimKeys[m]].score = ds[DimKeys[n]].score /\ m < n)})

KeyOfRank(ds, r) == DimKeys[CHOOSE n \in 1..Len(DimKeys) : Rank(ds, n) = r]

\* the reasons for the dimensions of rank 1, 2 and 3 that score at least 6
TopThreeReasons(ds) ==
    LET top == [r \in 1..3 |-> KeyOfRank(ds, r)]
        strong == SelectSeq(top, LAMBDA k : ~FLt(ds[k].score, F6))
    IN  [n \in 1..Len(strong) |->
            ds[strong[n]].name \o " (" \o Percent[strong[n]] \o "%): "
            \o ds[strong[n]].evidence[1]]

\* C10: with a Core Competencies score above 0 and a final score of at least
\* 60 the decision is Shortlisted, and its shortlist reasons are, in
\* descending order of score, one reason for each of the three highest
\* scoring dimensions that scores at least 6, made of the name, the weight
\* percentage and the first evidence string of the dimension.
C10_ShortlistedTopThree ==
    \A i \in Evaluated :
        FLt(F0, CoreScore(results[i])) /\ ~FLt(results[i].final_score, F60) =>
            /\ decisions[i].status = "Shortlisted"
            /\ decisions[i].shortlist_reasons = TopThreeReasons(results[i].dimension_scores)

\* three reasons whose dimensions are not the first three, with a fourth
\* dimension scoring at least 6
C10_Witness ==
    \E i \in Evaluated :
        /\ decisions[i].status = "Shortlisted"
        /\ Len(decisions[i].shortlist_reasons) = 3
        /\ \E n \in 1..Len(DimKeys) :
               /\ Rank(results[i].dimension_scores, n) > 3
               /\ ~FLt(results[i].dimension_scores[DimKeys[n]].score, F6)
        /\ Rank(results[i].dimension_scores, 3) > 3

F5 == FInt(5)

ConcernText ==
    [core_competencies      |-> "Limited core competencies signals",
     experience_results     |-> "Limited experience & results signals",
     collaboration_signals  |-> "Limited collaboration signals signals",
     cultural_practical_fit |-> "Limited cultural & practical fit signals",
     education_other        |-> "Limited education & other signals signals"]

\* the concerns for the dimensions scoring below 5, in the order of the
\* dimensions
ConcernsBelowFive(ds) ==
    LET low == SelectSeq(DimKeys, LAMBDA k : FLt(ds[k].score, F5))
    IN  [n \in 1..Len(low) |-> ConcernText[low[n]]]

\* C11: when the score-based decision is Shortlisted, its concerns are one
\* entry for each dimension scoring below 5, in the order of the dimensions,
\* and no entry for a dimension scoring 5 or more, whichever dimensions gave
\* shortlist reasons.
C11_ConcernsBelowFive ==
    \A i \in Evaluated :
        decisions[i].status = "Shortlisted" =>
            /\ decisions[i].concerns = ConcernsBelowFive(results[i].dimension_scores)
            /\ results[i].concerns = decisions[i].concerns

\* a shortlisted candidate with shortlist reasons beside a concern
C11_Witness ==
    \E i \in Evaluated :
        /\ decisions[i].status = "Shortlisted"
        /\ decisions[i].concerns # <<>>
        /\ decisions[i].shortlist_reasons # <<>>

\* C12: the reason lists of every result match the score-based decision: a
\* Rejected decision has rejection reasons and neither shortlist reasons nor
\* concerns, a Shortlisted decision has no rejection reasons, and no result
\* has rejection reasons beside shortlist reasons or concerns.
C12_ReasonListsMatchDecision ==
    \A i \in Evaluated :
        /\ decisions[i].status \in {"Rejected", "Shortlisted"}
        /\ decisions[i].status = "Rejected" =>
               /\ results[i].rejection_reasons # <<>>
               /\ results[i].shortlist_reasons = <<>>
               /\ results[i].concerns = <<>>
        /\ decisions[i].status = "Shortlisted" => results[i].rejection_reasons = <<>>
        /\ ~(/\ results[i].rejection_reasons # <<>>
             /\ results[i].shortlist_reasons # <<>> \/ results[i].concerns # <<>>)

\* a rejection below the threshold with a dimension scoring below 5
C12_Witness ==
    \E i \in Evaluated :
        /\ decisions[i].status = "Rejected"
        /\ FLt(F0, CoreScore(results[i]))
        /\ \E k \in DOMAIN results[i].dimension_scores :
               FLt(results[i].dimension_scores[k].score, F5)
        /\ results[i].concerns = <<>>

NoDuplicates(xs) == \A m, n \in 1..Len(xs) : xs[m] = xs[n] => m = n

\* C13: the bias flags of every result are the issues the bias guard
\* returned, without duplicates; they are empty exactly when the guard did
\* not flag the candidate, which is exactly when the status is not
\* "Flagged for Review".
C13_BiasFlagsDeduplicated ==
    \A i \in Evaluated :
        /\ results[i].bias_flags = bias_checks[i].issues
        /\ NoDuplicates(results[i].bias_flags)
        /\ results[i].bias_flags = <<>> <=> ~bias_checks[i].is_flagged
        /\ ~bias_checks[i].is_flagged <=> results[i].status # "Flagged for Review"

\* a candidate flagged for the one pattern that matches "Single"
C13_Witness ==
    \E i \in Evaluated :
        /\ to_evaluate[i].additional_info = "Single"
        /\ Len(results[i].bias_flags) = 1
        /\ bias_checks[i].is_flagged
        /\ results[i].status = "Flagged for Review"

\* the candidate without any text, with every other field "Not stated"
IsBlank(candidate) ==
    /\ candidate.cv_text = ""
    /\ candidate.additional_info = ""
    /\ candidate.highlights = "Not stated"
    /\ candidate.looking_for = "Not stated"
    /\ candidate.english_level = "Not stated"
    /\ candidate.years_experience = PyStr("Not stated")

\* C14: each of the five evidence lists of every result is non-empty; a
\* Core Competencies score of 0 comes with the one fallback string, and the
\* candidate without any text and with every field "Not stated" gets
\* exactly the fallback string of each dimension.
C14_EvidenceNonEmpty ==
    \A i \in Evaluated :
        /\ \A k \in DOMAIN results[i].dimension_scores :
               results[i].dimension_scores[k].evidence # <<>>
        /\ CoreScore(results[i]) = FZero =>
               results[i].dimension_scores.core_competencies.evidence
                   = <<"Limited technical signals detected">>
        /\ IsBlank(to_evaluate[i]) =>
               /\ results[i].dimension_scores.core_competencies.evidence
                      = <<"Limited technical signals detected">>
               /\ results[i].dimension_scores.experience_results.evidence
                      = <<"Experience details not clearly stated">>
               /\ results[i].dimension_scores.collaboration_signals.evidence
                      = <<"Limited collaboration signals (common for individual contributors)">>
               /\ results[i].dimension_scores.cultural_practical_fit.evidence
                      = <<"Standard fit indicators">>
               /\ results[i].dimension_scores.education_other.evidence
                      = <<"No formal education stated (not penalized)">>

\* the result of the candidate without any text
C14_Witness ==
    \E i \in Evaluated :
        /\ IsBlank(to_evaluate[i])
        /\ results[i].status = "Rejected"

F2  == FInt(2)
F8  == FInt(8)
F7p5 == FDec(75, 10)

\* the candidate of the worked example
IsExample(candidate) ==
    /\ candidate.cv_text
           = "after effects, rigging, collaborated with team, 2 years experience, fluent English"
    /\ candidate.additional_info = ""
    /\ candidate.highlights = "Not stated"
    /\ candidate.looking_for = "Not stated"
    /\ candidate.english_level = "Advanced"
    /\ candidate.years_experience = PyInt(2)

\* C15: the candidate with the CV text "after effects, rigging, collaborated
\* with team, 2 years experience, fluent English", English level Advanced
\* and two years of experience gets Core Competencies of at least 8,
\* Experience of 10, Collaboration of at least 6, Cultural fit of at least
\* 7.5, a final score of at least 70 in the band Good Fit or Strong Fit, and
\* the status Shortlisted.
C15_ExampleScores ==
    \A i \in Evaluated :
        IsExample(to_evaluate[i]) =>
            /\ FGe(CoreScore(results[i]), F8)
            /\ results[i].dimension_scores.experience_results.score = F10
            /\ FGe(results[i].dimension_scores.collaboration_signals.score, F6)
            /\ FGe(results[i].dimension_scores.cultural_practical_fit.score, F7p5)
            /\ FGe(results[i].final_score, F70)
            /\ results[i].band \in {"Good Fit", "Strong Fit"}
            /\ results[i].status = "Shortlisted"

\* the result of that candidate: shortlisted with Experience of 10, with
\* Core Competencies below 8 and a final score below 70 in the band
\* Borderline
C15_Witness ==
    \E i \in Evaluated :
        /\ IsExample(to_evaluate[i])
        /\ results[i].status = "Shortlisted"
        /\ results[i].dimension_scores.experience_results.score = F10
        /\ FLt(CoreScore(results[i]), F8)
        /\ FLt(results[i].final_score, F70)
        /\ results[i].band = "Borderline"

\* the number of the keywords that occur in the text
Present(keywords, text) == Cardinality({n \in 1..Len(keywords) : StrIn(keywords[n], text)})

\* min(10, A + B + C) for the numbers of required tools, preferred tools and
\* animation skills present
CoreOf(required, preferred, skills) ==
    FMin(F10,
         FAdd(FAdd(IF required > 0 THEN F4 ELSE F0,
                   FMin(F2, FMul(FInt(preferred), FDec(5, 10)))),
              FMin(F4, FMul(FInt(skills), FDec(6, 10)))))

\* C16: the Core Competencies score is min(10, A + B + C), where A is 4 if a
\* required tool occurs in the text and 0 otherwise, B is min(2, 0.5 x the
\* number of preferred tools that occur) and C is min(4, 0.6 x the number of
\* animation skills that occur); the keywords the evidence lists do not
\* enter it.
C16_CoreScoreFormula ==
    \A i \in Evaluated :
        LET text == _combine_text(to_evaluate[i])
        IN  CoreScore(results[i])
                = CoreOf(Present(REQUIRED_TOOLS, text), Present(PREFERRED_TOOLS, text),
                         Present(ANIMATION_SKILLS, text))

\* a Core Competencies score below 10 from four animation skills, one more
\* than a list of three
C16_Witness ==
    \E i \in Evaluated :
        /\ Present(ANIMATION_SKILLS, _combine_text(to_evaluate[i])) = 4
        /\ FLt(CoreScore(results[i]), F10)
        /\ FLt(F0, CoreScore(results[i]))

\* the score of the table for a years value: 5 when it is not stated or does
\* not parse, else by the number of years (in thousandths)
TableScore(years) ==
    LET f == ToFloat(years)
    IN  IF years = PyStr("Not stated") \/ years = PyNone \/ f.err THEN 5
        ELSE IF 1000 <= f.milli /\ f.milli <= 3000 THEN 10
        ELSE IF 500 <= f.milli /\ f.milli < 1000 THEN 8
        ELSE IF 3000 < f.milli /\ f.milli <= 5000 THEN 8
        ELSE IF f.milli > 5000 THEN 6
        ELSE 5

\* C17: the years lookup gives the score of the table, one of 5, 6, 8 and
\* 10, for every years value of a candidate that is evaluated, and no
\* evaluation ends with an error.
C17_ExperienceLookupTotal ==
    /\ error = ""
    /\ \A i \in Evaluated :
           score_experience_years(to_evaluate[i].years_experience)
               = PyScore(TableScore(to_evaluate[i].years_experience))

\* a run that a TypeError ended at a candidate whose years value is
\* not-a-number, for which the lookup returned None
C17_Witness ==
    /\ error = "TypeError"
    /\ Len(results) < Len(to_evaluate)
    /\ to_evaluate[Len(results) + 1].years_experience = PyNaN
    /\ score_experience_years(PyNaN) = PyNoneScore


\* a text in which _parse_response finds no JSON document, fenced or not
NotJson(text) == Take(Strip(text), Len(Fence)) # Fence /\ ~json_loads(Strip(text)).ok

\* the last request asked for advice while the advisor was unavailable, or
\* its upstream call raised or answered with a text that is not JSON
AdviceFailed ==
    /\ response.route = "advice"
    /\ \/ Unavailable(gemini)
       \/ upstream.kind = "raise"
       \/ upstream.kind = "text" /\ NotJson(upstream.text)

\* a degraded payload: an error marker, on the advice or beside it, and
\* empty suggestion lists
IsDegraded(body) ==
    /\ "error" \in (DOMAIN body \cup DOMAIN body.advice)
    /\ body.advice.interview_focus = <<>>
    /\ body.advice.skill_gaps = <<>>

\* C18: whenever the advisor is unavailable or its call fails (no key or
\* library, an exception of the upstream call, an upstream text that is not
\* valid JSON), the advice the endpoint returns carries an error marker and
\* empty interview_focus and skill_gaps lists.
C18_DegradedPayload == AdviceFailed => IsDegraded(response.body)

\* an advice response to an upstream text that is not JSON: it has no error
\* marker and one interview_focus entry
C18_Witness ==
    /\ response.route = "advice"
    /\ ~Unavailable(gemini)
    /\ upstream.kind = "text"
    /\ NotJson(upstream.text)
    /\ "error" \notin (DOMAIN response.body \cup DOMAIN response.body.advice)
    /\ response.body.advice.interview_focus = <<"Unable to parse AI response">>

\* the result evaluate() gave for the i-th candidate when the dashboard
\* started
ResultAtInit(i) == Evaluations[to_evaluate[i]][hashSeed].result

\* C19: after initialization, whatever list, detail and advice requests
\* were answered, with the advice call succeeding, failing or unavailable,
\* every stored EvaluationResult is the one computed at initialization, and
\* a detail response returns its to_dict().
C19_StoredResultsUnchanged ==
    gemini.created =>
        /\ Len(evaluation_results) = Len(to_evaluate)
        /\ \A i \in 1..Len(evaluation_results) :
               /\ evaluation_results[i].id = to_evaluate[i].id
               /\ evaluation_results[i].result = ResultAtInit(i)
               /\ (response.route = "candidate" /\ response.id = to_evaluate[i].id)
                      => response.body.evaluation = to_dict(ResultAtInit(i))

\* an advice request whose upstream call was made, for a stored candidate
\* with a dimension of more than two evidence strings, has been answered
C19_Witness ==
    /\ gemini.created
    /\ response.route = "advice"
    /\ upstream.kind \in {"raise", "text"}
    /\ \E i \in 1..Len(evaluation_results) :
           /\ evaluation_results[i].id = response.id
           /\ \E name \in DOMAIN evaluation_results[i].result.dimension_scores :
                  Len(evaluation_results[i].result.dimension_scores[name].evidence) > 2

\* evaluate_batch has returned or raised
BatchEnded == error # "" \/ Len(results) = Len(to_evaluate)

\* C20: evaluate_batch returns exactly one result per input candidate, in
\* input order, and the result for a candidate is the one evaluate() gives
\* for that candidate alone, whatever other candidates are in the batch and
\* whatever their order.
C20_BatchIndependent ==
    BatchEnded =>
        /\ error = ""
        /\ Len(results) = Len(to_evaluate)
        /\ \A i \in 1..Len(to_evaluate) :
               results[i] = Evaluations[to_evaluate[i]][hashSeed].result

\* a batch of two ended by the TypeError of its second candidate, after the
\* first one, which evaluate() scores alone, was evaluated: the batch
\* returns no result for either
C20_Witness ==
    /\ Len(to_evaluate) = 2
    /\ error = "TypeError"
    /\ Len(results) = 1
    /\ ~Evaluations[to_evaluate[1]][hashSeed].raised
    /\ results[1] = Evaluations[to_evaluate[1]][hashSeed].result
    /\ to_evaluate[2].years_experience = PyNaN

\* no required-tool keyword is in the text the scorers read
NoRequiredTool(candidate) == Present(REQUIRED_TOOLS, _combine_text(candidate)) = 0

\* C21: a candidate whose text contains none of the required-tool keywords
\* is never given the status Shortlisted, whatever preferred tools,
\* animation skills and other dimension scores the candidate has.
C21_NoRequiredToolNotShortlisted ==
    \A i \in Evaluated :
        NoRequiredTool(to_evaluate[i]) => results[i].status # "Shortlisted"

\* a candidate without any required tool, with animation skills only for
\* the core dimension, was Shortlisted with a final score of 60 or more
C21_Witness ==
    \E i \in Evaluated :
        /\ NoRequiredTool(to_evaluate[i])
        /\ results[i].status = "Shortlisted"
        /\ FLt(F0, CoreScore(results[i]))
        /\ FLt(CoreScore(results[i]), F4)
        /\ FGe(results[i].final_score, F60)

Shortlistable == {"Borderline", "Good Fit", "Strong Fit"}

\* C22: a Core Competencies score of 0 implies a final score below 60; so
\* for every candidate the bias guard did not flag, the status is Rejected
\* exactly when the band is Reject, and Shortlisted exactly when the band is
\* Borderline, Good Fit or Strong Fit.
C22_ZeroCoreBelowThreshold ==
    \A i \in Evaluated :
        /\ CoreScore(results[i]) = F0 => FLt(results[i].final_score, F60)
        /\ ~bias_checks[i].is_flagged =>
               /\ results[i].status = "Rejected" <=> results[i].band = "Reject"
               /\ results[i].status = "Shortlisted" <=> results[i].band \in Shortlistable

\* a candidate without any core signal whose other four dimensions score
\* 8.5 or more, rejected with a final score above 59 in band Reject
C22_Witness ==
    \E i \in Evaluated :
        /\ ~bias_checks[i].is_flagged
        /\ CoreScore(results[i]) = F0
        /\ \A k \in DOMAIN results[i].dimension_scores \ {"core_competencies"} :
               FGe(results[i].dimension_scores[k].score, FDec(85, 10))
        /\ FLt(FInt(59), results[i].final_score)
        /\ results[i].status = "Rejected"
        /\ results[i].band = "Reject"

\* the highest of the five dimension scores is at least 6
HighestAtLeastSix(result) ==
    \E k \in DOMAIN result.dimension_scores : FGe(result.dimension_scores[k].score, F6)

\* C23: whenever the score-based decision is Shortlisted, the final score
\* is at least 60, the highest-scoring dimension scores at least 6, and
\* shortlist_reasons has at least one and at most three entries.
C23_OneToThreeReasons ==
    \A i \in Evaluated :
        decisions[i].status = "Shortlisted" =>
            /\ FGe(results[i].final_score, F60)
            /\ HighestAtLeastSix(results[i])
            /\ Len(decisions[i].shortlist_reasons) \in 1..3
            /\ results[i].shortlist_reasons = decisions[i].shortlist_reasons

\* a Shortlisted decision with fewer than three reasons: only one or two
\* dimensions score at least 6
C23_Witness ==
    \E i \in Evaluated :
        /\ decisions[i].status = "Shortlisted"
        /\ Len(decisions[i].shortlist_reasons) \in 1..2
        /\ Cardinality({k \in DOMAIN results[i].dimension_scores :
                           FGe(results[i].dimension_scores[k].score, F6)}) \in 1..2

OtherDimensions ==
    {"experience_results", "collaboration_signals", "cultural_practical_fit", "education_other"}

\* C24: in every evaluation the Experience, Collaboration, Cultural fit and
\* Education scores are each at least 5, so that only Core Competencies can
\* score below 5; concerns has at most one entry and rejection_reasons at
\* most two.
C24_OnlyCoreBelowFive ==
    \A i \in Evaluated :
        /\ DOMAIN results[i].dimension_scores = OtherDimensions \cup {"core_competencies"}
        /\ \A k \in OtherDimensions : FGe(results[i].dimension_scores[k].score, F5)
        /\ Len(results[i].concerns) <= 1
        /\ Len(results[i].rejection_reasons) <= 2

\* a candidate with Basic English, the lowest level of the table, whose
\* Cultural fit score is below 6 and whose only weak dimension, Core
\* Competencies, gives the second of two rejection reasons
C24_Witness ==
    \E i \in Evaluated :
        /\ to_evaluate[i].english_level = "Basic"
        /\ FLt(results[i].dimension_scores.cultural_practical_fit.score, F6)
        /\ FLt(CoreScore(results[i]), F4)
        /\ Len(results[i].rejection_reasons) = 2
=============================================================================
